---- MODULE Spec2Model ----
(***************************************************************************)
(* CV analysis service (services/hrms-tools).  The module models the       *)
(* request pipeline of the FastAPI application: the two ingress handlers,  *)
(* the orchestrator CVAnalyzer.analyze, the provider factory, the response *)
(* validation, and the SQLite audit store with its daily token aggregate.  *)
(*                                                                         *)
(* Handlers run as tasks of one asyncio event loop: the code between two   *)
(* awaits is one atomic step.  Strings that the code formats are modelled  *)
(* as sequences of fragments, so that "message contains X" is decidable.   *)
(***************************************************************************)
EXTENDS Integers, Sequences, FiniteSets, TLC

\* ------------------------------------------------------------------ bounds
MaxRequests == 1
MaxTokens == 1

\* ------------------------------------------------------- optional values
None == <<>>
Some(v) == <<v>>
Get(o) == o[1]

Contains(msg, fragment) == \E i \in 1..Len(msg) : msg[i] = fragment

\* ------------------------------------------------------- settings (config.py)
ProviderNames == <<"openai", "anthropic", "gemini">>
ProviderSet == {ProviderNames[i] : i \in 1..Len(ProviderNames)}

DEFAULT_MAX_RETRIES == 3
DEFAULT_RETRY_DELAY_SECONDS == 2

\* The environments the service is started in: which API keys are set, the
\* default provider and the retry settings.
Deployment(keys, default, retries) ==
    [api_keys |-> keys, DEFAULT_LLM_PROVIDER |-> default,
     MAX_RETRIES |-> retries, RETRY_DELAY_SECONDS |-> DEFAULT_RETRY_DELAY_SECONDS]

Settings ==
    { Deployment(ProviderSet, "openai", DEFAULT_MAX_RETRIES),
      Deployment({"anthropic", "gemini"}, "openai", 0),
      Deployment({"gemini"}, "auto", DEFAULT_MAX_RETRIES) }

\* ------------------------------------------------------- request models
AllowedProviders == {"openai", "anthropic", "gemini", "auto"}
AllowedDepths == {"quick", "detailed"}
AllowedExtensions == {".pdf", ".doc", ".docx"}

Lower(s) ==
    CASE s = ".DOCX" -> ".docx"
      [] s = "OpenAI" -> "openai"
      [] OTHER -> s

\* A filename is a sequence of fragments, the last one being its suffix.
EndsWithAllowed(filename) ==
    /\ Len(filename) > 0
    /\ Lower(filename[Len(filename)]) \in AllowedExtensions

\* AnalysisConfig.validate_provider / validate_depth: membership after lower().
validate_provider(v) == Lower(v) \in AllowedProviders
validate_depth(v) == Lower(v) \in AllowedDepths

\* ScoringWeights: each weight in [0,100].
validate_weights(w) == \A k \in DOMAIN w : 0 <= w[k] /\ w[k] <= 100

\* CVAnalysisRequest.validate_cv_file: a URL or decodable base64.
validate_cv_file(v) == v \in {"url", "base64"}

\* CVAnalysisRequest.validate_filename
validate_filename(v) == EndsWithAllowed(v)

DefaultWeights ==
    [technical_skills |-> 40, experience |-> 30, education |-> 15, cultural_fit |-> 15]

\* What a client may send.  form_json is the well-formedness of the two JSON
\* form fields of the multipart endpoint; role_title "" is a missing title.
BaseRequest ==
    [endpoint |-> "analyze", cv_file |-> "base64", cv_filename |-> <<"cv", ".pdf">>,
     form_json |-> TRUE, role_title |-> "Engineer", scoring_weights |-> DefaultWeights,
     llm_provider |-> "auto", prompt_version |-> "v1", analysis_depth |-> "detailed"]

Defects ==
    { [BaseRequest EXCEPT !.cv_filename = <<"resume", ".txt">>],
      [BaseRequest EXCEPT !.form_json = FALSE],
      [BaseRequest EXCEPT !.llm_provider = "llama"],
      [BaseRequest EXCEPT !.analysis_depth = "thorough"],
      [BaseRequest EXCEPT !.role_title = ""],
      [BaseRequest EXCEPT !.scoring_weights = [DefaultWeights EXCEPT !.experience = 140]] }

WellFormed ==
    { [BaseRequest EXCEPT !.llm_provider = p] : p \in {"auto", "OpenAI", "anthropic"} }
    \cup { [BaseRequest EXCEPT !.llm_provider = "gemini", !.cv_filename = <<"cv", ".DOCX">>] }

Requests ==
    { [q EXCEPT !.endpoint = e] :
        q \in Defects \cup WellFormed, e \in {"analyze", "analyze-upload"} }

\* The malformed-input conditions of a request.
Malformed(q) ==
    \/ ~EndsWithAllowed(q.cv_filename)
    \/ (q.endpoint = "analyze-upload" /\ ~q.form_json)
    \/ ~validate_provider(q.llm_provider)
    \/ ~validate_depth(q.analysis_depth)
    \/ q.role_title = ""
    \/ ~validate_weights(q.scoring_weights)

\* Pydantic construction of CVAnalysisRequest: every field is validated, in
\* the order of the class body, and the errors of all fields are collected.
ValidationErrors(q) ==
    (IF validate_cv_file(q.cv_file) THEN <<>>
     ELSE <<"cv_file must be either a valid URL or base64 encoded string">>)
    \o (IF validate_filename(q.cv_filename) THEN <<>>
        ELSE <<"File must have one of these extensions: ">>)
    \o (IF q.role_title # "" THEN <<>> ELSE <<"String should have at least 1 character">>)
    \o (IF validate_weights(q.scoring_weights) THEN <<>>
        ELSE <<"Input should be less than or equal to 100">>)
    \o (IF validate_provider(q.llm_provider) THEN <<>> ELSE <<"LLM provider must be one of ">>)
    \o (IF validate_depth(q.analysis_depth) THEN <<>> ELSE <<"Analysis depth must be one of ">>)

\* What the construction does with the document and its name: a payload that
\* is not a URL is decoded by validate_cv_file, then validate_filename runs.
CVAnalysisRequest_steps(q) ==
    (IF q.cv_file = "url" THEN <<>> ELSE <<"b64decode">>) \o <<"validate_filename">>

\* TRUE iff every field validates.
CVAnalysisRequest_valid(q) ==
    /\ validate_cv_file(q.cv_file)
    /\ validate_filename(q.cv_filename)
    /\ q.role_title # ""
    /\ validate_weights(q.scoring_weights)
    /\ validate_provider(q.llm_provider)
    /\ validate_depth(q.analysis_depth)

\* The constructed model: the validators return the lowered value.
CVAnalysisRequest(q) ==
    [cv_file |-> q.cv_file, cv_filename |-> q.cv_filename, role_title |-> q.role_title,
     scoring_weights |-> q.scoring_weights, llm_provider |-> Lower(q.llm_provider),
     prompt_version |-> q.prompt_version, analysis_depth |-> Lower(q.analysis_depth)]

\* ------------------------------------------------------- calls and exceptions
Exc(type, msg) == [type |-> type, msg |-> msg]
Ok(v) == [exc |-> None, value |-> Some(v)]
Raise(e) == [exc |-> Some(e), value |-> None]

\* Variant: the message is kept without the provider's name in front.
LLMProviderError_bare(provider, message) == Exc("LLMProviderError", message)

\* str(LLMProviderError): "[{provider}] {message}"  (llm_providers/base.py)
LLMProviderError(provider, message) ==
    Exc("LLMProviderError", <<"[", provider, "] ">> \o message)

\* ------------------------------------------------------- document parser
DocOutcomes == {"text", "no_text", "corrupt"}

Suffix(filename) == Lower(filename[Len(filename)])

\* _parse_pdf: the except Exception clause re-wraps the error raised inside
\* the try block for an empty text.
parse_pdf(doc) ==
    CASE doc = "text" -> Ok([text |-> "cv text", page_count |-> 2])
      [] doc = "no_text" ->
            Raise(Exc("DocumentParserError",
                      <<"Failed to parse PDF: ", "No text could be extracted from PDF.">>))
      [] OTHER ->
            Raise(Exc("DocumentParserError",
                      <<"Invalid or corrupted PDF file: ", "EOF marker not found">>))

\* _parse_docx
parse_docx(doc) ==
    CASE doc = "text" -> Ok([text |-> "cv text", page_count |-> 1])
      [] doc = "no_text" ->
            Raise(Exc("DocumentParserError",
                      <<"Failed to parse DOCX: ", "No text could be extracted from DOCX file.">>))
      [] OTHER -> Raise(Exc("DocumentParserError", <<"Invalid DOCX file format">>))

\* parse_base64: every exception leaving the try block, DocumentParserError
\* included, is re-raised as DocumentParserError("Failed to parse document: ..").
parse_base64(filename, doc) ==
    LET inner == IF Suffix(filename) = ".pdf" THEN parse_pdf(doc)
                 ELSE IF Suffix(filename) \in {".doc", ".docx"} THEN parse_docx(doc)
                 ELSE Raise(Exc("DocumentParserError",
                                <<"Unsupported file type: ", Suffix(filename)>>))
    IN  IF inner.exc = None THEN inner
        ELSE Raise(Exc("DocumentParserError",
                       <<"Failed to parse document: ">> \o Get(inner.exc).msg))

\* ------------------------------------------------------- provider factory
\* _initialize_providers: one provider per API key that is set, inserted in
\* the order openai, anthropic, gemini.
initialize_providers(s) ==
    SelectSeq(ProviderNames, LAMBDA p : p \in s.api_keys)

\* BaseLLMProvider.validate_api_key and client is not None
is_available(p, s) == p \in s.api_keys

\* Variant: the error lists every provider the service knows, configured or not.
get_provider_lists_all(provider_name, provs, s) ==
    LET named == IF provider_name = "" \/ provider_name = "auto"
                 THEN s.DEFAULT_LLM_PROVIDER ELSE provider_name
        name == IF named = "auto" /\ provs # <<>> THEN provs[1] ELSE named
    IN  IF Contains(provs, name) THEN Ok(name)
        ELSE Raise(LLMProviderError(name,
                <<"Provider '", name, "' not available. Available providers: ">>
                \o ProviderNames))

\* LLMFactory.get_provider
get_provider(provider_name, provs, s) ==
    LET named == IF provider_name = "" \/ provider_name = "auto"
                 THEN s.DEFAULT_LLM_PROVIDER ELSE provider_name
    IN  IF named = "auto" /\ provs = <<>>
        THEN Raise(LLMProviderError("auto", <<"No LLM providers are configured.">>))
        ELSE LET name == IF named = "auto" THEN provs[1] ELSE named
             IN  IF ~Contains(provs, name)
                 THEN Raise(LLMProviderError(name,
                        <<"Provider '", name, "' not available. Available providers: ">>
                        \o provs))
                 ELSE IF ~is_available(name, s)
                 THEN Raise(LLMProviderError(name,
                        <<"Provider '", name, "' is not properly configured">>))
                 ELSE Ok(name)

\* ------------------------------------------------------- providers
ModelOf(p) ==
    CASE p = "openai" -> "gpt-4-turbo-preview"
      [] p = "anthropic" -> "claude-3-5-sonnet-20241022"
      [] OTHER -> "gemini-1.5-pro"

ApiErrorPrefix(p) ==
    CASE p = "openai" -> "OpenAI API call failed: "
      [] p = "anthropic" -> "Anthropic API call failed: "
      [] OTHER -> "Gemini API call failed: "

\* OpenAIProvider / AnthropicProvider await their client; GeminiProvider
\* calls its client synchronously inside the coroutine.
Suspends(p) == p \in {"openai", "anthropic"}

\* <Provider>.generate: the SDK's own error class and any other exception are
\* both re-raised as LLMProviderError carrying the provider's name.
Provider_generate(p, out) ==
    CASE out.kind = "ok" ->
            Ok([content |-> out.content, model |-> ModelOf(p),
                tokens_used |-> out.tokens_used])
      [] out.kind = "api_error" ->
            Raise(LLMProviderError(p, <<ApiErrorPrefix(p), out.msg>>))
      [] OTHER ->
            Raise(LLMProviderError(p, <<"Unexpected error: ", out.msg>>))

\* ------------------------------------------------------- model answers
RequiredFields ==
    <<"overall_score", "recommendation", "section_scores",
      "key_strengths", "critical_gaps", "follow_up_questions">>
RequiredSet == {RequiredFields[i] : i \in 1..Len(RequiredFields)}

\* The members of RecommendationType
RecommendationValues == {"strong_yes", "yes", "maybe", "no", "strong_no"}

\* Section entries a provider may return.  Scores are whole numbers and
\* weighted_score is exact when weighted_score * 100 = score * weight.
Entry(score, weight, weighted) ==
    [section |-> "Technical Skills", score |-> score, weight |-> weight,
     weighted_score |-> weighted, rationale |-> "rationale"]

SectionLists ==
    { <<Entry(80, 50, 40)>>, <<Entry(80, 50, 10)>>,
      <<Entry(80, 50, 40), Entry(150, 50, 75)>> }

\* A JSON object with the given keys.
Answer(keys, score, rec, sections) ==
    [k \in keys |->
        CASE k = "overall_score" -> score
          [] k = "recommendation" -> rec
          [] k = "section_scores" -> sections
          [] k = "key_strengths" -> <<"strength">>
          [] k = "critical_gaps" -> <<"gap">>
          [] OTHER -> <<"question">>]

PartialAnswers ==
    { Answer(keys, 50, "yes", <<Entry(80, 50, 40)>>) :
        keys \in (SUBSET RequiredSet) \ {RequiredSet} }

CompleteAnswers ==
    { Answer(RequiredSet, score, rec, sections) :
        score \in {50, 150}, rec \in {"yes", "strong_no", "perhaps"},
        sections \in SectionLists }

\* The text a provider returns, by what json.loads makes of it once the
\* surrounding whitespace and code fence are removed: not JSON, a JSON array
\* of strings (items), or a JSON object (value, a function of its keys).
Contents ==
    {[json |-> "invalid", value |-> <<>>, items |-> <<>>],
     [json |-> "array", value |-> <<>>, items |-> RequiredFields]}
    \cup {[json |-> "object", value |-> a, items |-> <<>>] :
            a \in PartialAnswers \cup CompleteAnswers}

TokenCounts == {None} \cup {Some(t) : t \in 0..MaxTokens}

\* The answers that pass validation and assembly.
Acceptable(c) ==
    /\ c.json = "object"
    /\ DOMAIN c.value = RequiredSet
    /\ c.value["recommendation"] \in RecommendationValues
    /\ c.value["overall_score"] \in 0..100
    /\ \A i \in 1..Len(c.value["section_scores"]) :
          /\ c.value["section_scores"][i].score \in 0..100
          /\ c.value["section_scores"][i].weight \in 0..100

\* What a provider call may do: answer, with or without a token count, or
\* fail in the SDK's error class or in any other exception.  The token count
\* varies over the answers that reach the audit row.
GenOutcomes ==
    {[kind |-> "ok", content |-> c, tokens_used |-> t, msg |-> ""] :
        c \in {x \in Contents : Acceptable(x)}, t \in TokenCounts}
    \cup {[kind |-> "ok", content |-> c, tokens_used |-> Some(MaxTokens), msg |-> ""] :
            c \in {x \in Contents : ~Acceptable(x)}}
    \cup {[kind |-> k, content |-> [json |-> "invalid", value |-> <<>>, items |-> <<>>],
           tokens_used |-> None, msg |-> "Connection reset by peer"] :
            k \in {"api_error", "network"}}

\* ------------------------------------------------------- response validation
\* Python's "field not in result": key lookup for a dict, element lookup for a list.
HasField(result, field) ==
    IF result.json = "object" THEN field \in DOMAIN result.value
    ELSE Contains(result.items, field)

\* Variant: the loop stops one field short.
MissingFields_short(result) ==
    {i \in 1..(Len(RequiredFields) - 1) : ~HasField(result, RequiredFields[i])}

MissingFields(result) ==
    {i \in 1..Len(RequiredFields) : ~HasField(result, RequiredFields[i])}

FirstMissing(result) ==
    RequiredFields[CHOOSE i \in MissingFields(result) :
                        \A j \in MissingFields(result) : i <= j]

\* CVAnalyzer._parse_llm_response
parse_llm_response(content) ==
    IF content.json = "invalid"
    THEN Raise(Exc("CVAnalyzerError",
                   <<"LLM did not return valid JSON. Please try again.">>))
    ELSE IF MissingFields(content) # {}
    THEN Raise(Exc("CVAnalyzerError",
                   <<"Missing required field in LLM response: ", FirstMissing(content)>>))
    ELSE Ok(content)

\* Variant: only the raw score is bounded.
SectionScore_valid_score_only(e) == 0 <= e.score /\ e.score <= 100

\* SectionScore(**section): score and weight are validated, weighted_score is
\* taken as given.
SectionScore_valid(e) ==
    /\ 0 <= e.score /\ e.score <= 100
    /\ 0 <= e.weight /\ e.weight <= 100

SectionScore(e) ==
    [section |-> e.section, score |-> e.score, weight |-> e.weight,
     weighted_score |-> e.weighted_score, rationale |-> e.rationale]

\* Variant: the recommendation is passed on as the string the model gave.
RecommendationType_unchecked(v) == Ok(v)

\* RecommendationType(value): the enum member, or ValueError.
RecommendationType(v) ==
    IF v \in RecommendationValues THEN Ok(v)
    ELSE Raise(Exc("ValueError", <<"'", v, "' is not a valid RecommendationType">>))

\* Python's analysis_result[key] for a dict that may lack the key.
KeyError(key) == Exc("KeyError", <<"'", key, "'">>)

\* CVAnalyzer._build_response, in the order Python evaluates it: the section
\* list, then the keyword arguments of CVAnalysisResponse one by one, then the
\* model's own validation.
build_response(analysis_id, analysis_result, llm_provider, llm_model, prompt_version, tokens_used, processing_time_ms, page_count, now) ==
    LET a == analysis_result.value
        has(k) == k \in DOMAIN a
    IN  IF analysis_result.json # "object"
        THEN Raise(Exc("TypeError", <<"list indices must be integers or slices, not str">>))
        ELSE IF ~has("section_scores") THEN Raise(KeyError("section_scores"))
        ELSE IF \E i \in 1..Len(a["section_scores"]) : ~SectionScore_valid(a["section_scores"][i])
        THEN Raise(Exc("ValidationError", <<"1 validation error for SectionScore">>))
        ELSE IF ~has("overall_score") THEN Raise(KeyError("overall_score"))
        ELSE IF ~has("recommendation") THEN Raise(KeyError("recommendation"))
        ELSE IF RecommendationType(a["recommendation"]).exc # None
        THEN RecommendationType(a["recommendation"])
        ELSE IF ~has("key_strengths") THEN Raise(KeyError("key_strengths"))
        ELSE IF ~has("critical_gaps") THEN Raise(KeyError("critical_gaps"))
        ELSE IF ~has("follow_up_questions") THEN Raise(KeyError("follow_up_questions"))
        ELSE IF ~(0 <= a["overall_score"] /\ a["overall_score"] <= 100)
        THEN Raise(Exc("ValidationError", <<"1 validation error for CVAnalysisResponse">>))
        ELSE Ok([analysis_id |-> analysis_id,
                 timestamp |-> now,
                 overall_score |-> a["overall_score"],
                 recommendation |-> Get(RecommendationType(a["recommendation"]).value),
                 section_scores |-> [i \in 1..Len(a["section_scores"]) |->
                                        SectionScore(a["section_scores"][i])],
                 key_strengths |-> a["key_strengths"],
                 critical_gaps |-> a["critical_gaps"],
                 follow_up_questions |-> a["follow_up_questions"],
                 metadata |-> [llm_provider |-> llm_provider, model |-> llm_model,
                               prompt_version |-> prompt_version,
                               tokens_used |-> tokens_used,
                               processing_time_ms |-> processing_time_ms,
                               cv_pages |-> page_count]])

\* ------------------------------------------------------- state
VARIABLES
    settings,           \* Settings, read at start-up
    providers,          \* LLMFactory._providers, in insertion order
    utc_day,            \* the date datetime.utcnow() reports
    pc,                 \* where each request's handler is
    frame,              \* the locals of each request's handler and of analyze
    http,               \* the HTTP response a finished handler hands back
    cv_analysis_logs,   \* audit table cv_analysis_logs
    token_usage         \* audit table token_usage

vars == <<settings, providers, utc_day, pc, frame, http, cv_analysis_logs, token_usage>>

Reqs == 1..MaxRequests
ElapsedMs == {3}

\* ------------------------------------------------------- audit store
DbOutcomes == {"ok", "insert_error", "upsert_error"}

\* Python truthiness of Optional[int]: None and 0 are false.
Truthy(tokens_used) == tokens_used # None /\ Get(tokens_used) # 0

\* AuditLogger._update_token_usage: one upsert keyed by (date, llm_provider);
\* a failure is logged and swallowed.
update_token_usage(usage, llm_provider, tokens, today, db) ==
    IF db = "upsert_error" THEN usage
    ELSE IF \E u \in usage : u.date = today /\ u.llm_provider = llm_provider
    THEN { IF u.date = today /\ u.llm_provider = llm_provider
           THEN [u EXCEPT !.total_tokens = @ + tokens, !.request_count = @ + 1]
           ELSE u : u \in usage }
    ELSE usage \cup {[date |-> today, llm_provider |-> llm_provider,
                      total_tokens |-> tokens, request_count |-> 1]}

\* Variant: INSERT OR REPLACE, a duplicate analysis_id overwrites the stored row.
insert_log_or_replace(logs, row, db) ==
    IF db = "insert_error"
    THEN [logs |-> logs, exc |-> Some(Exc("OperationalError", <<"database is locked">>))]
    ELSE [logs |-> {l \in logs : l.analysis_id # row.analysis_id} \cup {row}, exc |-> None]

\* The INSERT of AuditLogger.log_analysis as SQLite executes it: it raises on a
\* database failure and on a duplicate analysis_id (UNIQUE constraint).
insert_log(logs, row, db) ==
    IF db = "insert_error"
    THEN [logs |-> logs, exc |-> Some(Exc("OperationalError", <<"database is locked">>))]
    ELSE IF \E l \in logs : l.analysis_id = row.analysis_id
    THEN [logs |-> logs,
          exc |-> Some(Exc("IntegrityError",
                           <<"UNIQUE constraint failed: cv_analysis_logs.analysis_id">>))]
    ELSE [logs |-> logs \cup {row}, exc |-> None]

\* AuditLogger.log_analysis, line 155: if tokens_used and status == "success"
needs_upsert(row) == Truthy(row.tokens_used) /\ row.status = "success"

\* AuditLogger.log_analysis: insert, commit, then the aggregate for a success
\* with a truthy token count; every exception is logged and swallowed.
\* logged is the exception the logger wrote to the service log, if any.
AuditLogger_log_analysis(logs, usage, row, db) ==
    LET ins == insert_log(logs, row, db)
        upsert == needs_upsert(row)
    IN  IF ins.exc # None
        THEN [logs |-> logs, usage |-> usage, exc |-> None, logged |-> ins.exc]
        ELSE [logs |-> ins.logs,
              usage |-> IF upsert
                        THEN update_token_usage(usage, row.llm_provider,
                                                Get(row.tokens_used), row.timestamp, db)
                        ELSE usage,
              exc |-> None,
              logged |-> IF upsert /\ db = "upsert_error"
                         THEN Some(Exc("OperationalError", <<"database is locked">>))
                         ELSE None]

\* The audit database the service finds at start-up (_ensure_database creates
\* the tables only if they do not exist): empty, or left by an earlier run
\* that logged one success of 5 tokens under the selector "auto".
EarlierRow ==
    [analysis_id |-> 0, timestamp |-> 1, cv_filename |-> <<"cv", ".pdf">>,
     position_title |-> "Engineer", llm_provider |-> "auto",
     llm_model |-> "gpt-4-turbo-preview", prompt_version |-> "v1",
     tokens_used |-> Some(5), processing_time_ms |-> 3, overall_score |-> Some(50),
     recommendation |-> Some("yes"), status |-> "success", error_message |-> None]

AuditDatabases ==
    { [logs |-> {}, usage |-> {}],
      [logs |-> {EarlierRow},
       usage |-> {[date |-> 1, llm_provider |-> "auto",
                   total_tokens |-> 5, request_count |-> 1]}] }

\* ------------------------------------------------------- orchestrator
NoFrame ==
    [request |-> None, steps |-> <<>>, page_count |-> None, provider |-> None,
     llm_response |-> None, analysis_result |-> None, response |-> None,
     pending |-> None, raised |-> None, audit_log |-> None, received |-> None]

\* request is the CVAnalysisRequest once it is built; received is the request
\* as the client sent it, kept while no request model exists.
NewFrame(req) == [NoFrame EXCEPT !.request = Some(req)]

Did(f, step) == [f EXCEPT !.steps = Append(@, step)]
Failed(f, e) == [f EXCEPT !.pending = e]

\* The keyword arguments CVAnalyzer._log_analysis passes to the audit logger.
\* Variant: the row of a run keeps no score.
AuditRow_without_score(req, id, resp, status, error_message, ms, now) ==
    [analysis_id |-> id,
     timestamp |-> now,
     cv_filename |-> req.cv_filename,
     position_title |-> req.role_title,
     llm_provider |-> req.llm_provider,
     llm_model |-> IF resp # None THEN Get(resp).metadata.model ELSE "unknown",
     prompt_version |-> req.prompt_version,
     tokens_used |-> IF resp # None THEN Get(resp).metadata.tokens_used ELSE None,
     processing_time_ms |-> ms,
     overall_score |-> None,
     recommendation |-> IF resp # None THEN Some(Get(resp).recommendation) ELSE None,
     status |-> status,
     error_message |-> error_message]

\* llm_provider is the request's selector, not the provider that answered.
AuditRow(req, id, resp, status, error_message, ms, now) ==
    [analysis_id |-> id,
     timestamp |-> now,
     cv_filename |-> req.cv_filename,
     position_title |-> req.role_title,
     llm_provider |-> req.llm_provider,
     llm_model |-> IF resp # None THEN Get(resp).metadata.model ELSE "unknown",
     prompt_version |-> req.prompt_version,
     tokens_used |-> IF resp # None THEN Get(resp).metadata.tokens_used ELSE None,
     processing_time_ms |-> ms,
     overall_score |-> IF resp # None THEN Some(Get(resp).overall_score) ELSE None,
     recommendation |-> IF resp # None THEN Some(Get(resp).recommendation) ELSE None,
     status |-> status,
     error_message |-> error_message]

\* Variant: neither _log_analysis nor the audit logger guards the INSERT, so a
\* database failure leaves _log_analysis as an exception.
CVAnalyzer_log_analysis_unguarded(m, id, resp, status, error_message, ms, now, db) ==
    LET row == AuditRow(Get(m.f.request), id, resp, status, error_message, ms, now)
        ins == insert_log(m.logs, row, db)
    IN  [f |-> [Did(m.f, "audit") EXCEPT !.audit_log = ins.exc],
         logs |-> ins.logs, usage |-> m.usage, exc |-> ins.exc]

\* CVAnalyzer._log_analysis: builds the row from the request and the response
\* it is given and hands it to the audit logger inside a try that swallows
\* every exception.  m is the machine: the frame f and the two audit tables.
\* The frame's audit_log is what the audit logger wrote to the service log.
CVAnalyzer_log_analysis(m, id, resp, status, error_message, ms, now, db) ==
    LET row == AuditRow(Get(m.f.request), id, resp, status, error_message, ms, now)
        w == AuditLogger_log_analysis(m.logs, m.usage, row, db)
    IN  [f |-> [Did(m.f, "audit") EXCEPT !.audit_log = w.logged],
         logs |-> w.logs, usage |-> w.usage, exc |-> None]

\* PromptManager.build_analysis_prompt, called by CVAnalyzer._build_prompt
\* with the text, the two dumped models and the depth.
build_prompt(req, cv_text) ==
    Ok([system_prompt |-> "system", user_prompt |-> <<req.role_title, cv_text, req.analysis_depth>>])

\* Variant: a document that fails to parse is noted but the steps go on, up
\* to the provider call.
analyze_before_call_no_exit(f, doc) ==
    LET req == Get(f.request)
        d == parse_base64(req.cv_filename, doc)
        g == get_provider(req.llm_provider, providers, settings)
        f2 == Did([Did(f, "parse_document") EXCEPT !.page_count = Some(1)], "get_provider")
    IN  IF g.exc # None THEN Failed(f2, g.exc)
        ELSE LET f4 == Did(Did([f2 EXCEPT !.provider = g.value], "build_prompt"), "generate")
             IN  IF d.exc # None THEN Failed(f4, d.exc) ELSE f4

\* CVAnalyzer.analyze, steps 1 to 3 and the call of generate (step 4).
analyze_before_call(f, doc) ==
    LET req == Get(f.request)
        f1 == Did(f, "parse_document")
        d == parse_base64(req.cv_filename, doc)
    IN  IF d.exc # None THEN Failed(f1, d.exc)
        ELSE
        LET f2 == Did([f1 EXCEPT !.page_count = Some(Get(d.value).page_count)], "get_provider")
            g == get_provider(req.llm_provider, providers, settings)
        IN  IF g.exc # None THEN Failed(f2, g.exc)
            ELSE
            LET f3 == Did([f2 EXCEPT !.provider = g.value], "build_prompt")
                b == build_prompt(req, Get(d.value).text)
            IN  IF b.exc # None THEN Failed(f3, b.exc)
                ELSE Did(f3, "generate")

\* Variant: a failed call is repeated while MAX_RETRIES allows it.
generate_result_retrying(f, out) ==
    LET g == Provider_generate(Get(f.provider), out)
    IN  IF g.exc # None
        THEN Failed(IF settings.MAX_RETRIES > 0 THEN Did(f, "generate") ELSE f, g.exc)
        ELSE [f EXCEPT !.llm_response = g.value]

\* CVAnalyzer.analyze, line 71: what the awaited generate call leaves behind.
generate_result(f, out) ==
    LET g == Provider_generate(Get(f.provider), out)
    IN  IF g.exc # None THEN Failed(f, g.exc)
        ELSE [f EXCEPT !.llm_response = g.value]

\* CVAnalyzer.analyze, steps 5 and 6.
analyze_after_call(f, id, ms, now) ==
    IF f.pending # None THEN f
    ELSE
    LET r == Get(f.llm_response)
        f1 == Did(f, "parse_llm_response")
        p == parse_llm_response(r.content)
    IN  IF p.exc # None THEN Failed(f1, p.exc)
        ELSE
        LET f2 == Did([f1 EXCEPT !.analysis_result = p.value], "build_response")
            b == build_response(id, Get(p.value), Get(f.provider), r.model,
                                Get(f.request).prompt_version, r.tokens_used, ms,
                                Get(f.page_count), now)
        IN  IF b.exc # None THEN Failed(f2, b.exc)
            ELSE [f2 EXCEPT !.response = b.value]

\* Variant: one except clause for everything, one prefix.
ErrorPrefix_single(e) == "Analysis failed: "

\* The message prefix of the three except clauses of CVAnalyzer.analyze.
ErrorPrefix(e) ==
    CASE e.type = "DocumentParserError" -> "Failed to parse CV document: "
      [] e.type = "LLMProviderError" -> "LLM analysis failed: "
      [] OTHER -> "Analysis failed: "

\* CVAnalyzer.analyze, the except clauses: audit the error, then raise
\* CVAnalyzerError.  An exception leaving _log_analysis would leave analyze.
analyze_except(m, e, id, ms, now, db) ==
    LET la == CVAnalyzer_log_analysis(m, id, None, "error", Some(e.msg), ms, now, db)
        out == IF la.exc # None THEN la.exc
               ELSE Some(Exc("CVAnalyzerError", <<ErrorPrefix(e)>> \o e.msg))
    IN  [f |-> Did([la.f EXCEPT !.raised = out], "raise"),
         logs |-> la.logs, usage |-> la.usage]

\* CVAnalyzer.analyze, step 7 and the return; step 7 is inside the try block.
analyze_finish(m, id, ms, now, db) ==
    IF m.f.pending # None
    THEN analyze_except(m, Get(m.f.pending), id, ms, now, db)
    ELSE
    LET la == CVAnalyzer_log_analysis(m, id, m.f.response, "success", None, ms, now, db)
    IN  IF la.exc # None
        THEN analyze_except([f |-> la.f, logs |-> la.logs, usage |-> la.usage],
                            Get(la.exc), id, ms, now, db)
        ELSE [f |-> Did(la.f, "return"), logs |-> la.logs, usage |-> la.usage]

\* ------------------------------------------------------- HTTP layer
Reply(status, error, message, body) ==
    [status |-> status, error |-> error, message |-> message, body |-> body]

\* analyze_cv / analyze_cv_upload: the except clauses around analyzer.analyze.
analyze_cv_reply(f) ==
    IF f.raised = None THEN Reply(200, "", <<>>, f.response)
    ELSE IF Get(f.raised).type = "CVAnalyzerError"
    THEN Reply(400, "AnalysisError", Get(f.raised).msg, None)
    ELSE Reply(500, "InternalServerError",
               <<"An unexpected error occurred during analysis">>, None)

\* POST /analyze: the framework builds the CVAnalysisRequest parameter from the
\* body before the handler runs and answers 422 when that fails.
analyze_cv_ingress(q) ==
    IF CVAnalysisRequest_valid(q) THEN [reply |-> None, request |-> Some(CVAnalysisRequest(q))]
    ELSE [reply |-> Some(Reply(422, "RequestValidationError", ValidationErrors(q), None)),
          request |-> None]

\* POST /analyze-upload up to the call of analyzer.analyze: the handler's own
\* checks raise HTTPException(400); the CVAnalysisRequest constructor raises
\* pydantic's ValidationError, which the except Exception clause answers.
analyze_cv_upload_ingress(q) ==
    IF Len(q.cv_filename) = 0
    THEN [reply |-> Some(Reply(400, "ValidationError", <<"Filename is required">>, None)),
          request |-> None]
    ELSE IF ~EndsWithAllowed(q.cv_filename)
    THEN [reply |-> Some(Reply(400, "ValidationError", <<"File must be one of: ">>, None)),
          request |-> None]
    ELSE IF ~q.form_json
    THEN [reply |-> Some(Reply(400, "ValidationError", <<"Invalid JSON in form fields: ">>, None)),
          request |-> None]
    ELSE IF ~CVAnalysisRequest_valid(q)
    THEN [reply |-> Some(Reply(500, "InternalServerError",
                               <<"An unexpected error occurred during analysis">>, None)),
          request |-> None]
    ELSE [reply |-> None, request |-> Some(CVAnalysisRequest(q))]

ingress(q) ==
    IF q.endpoint = "analyze" THEN analyze_cv_ingress(q) ELSE analyze_cv_upload_ingress(q)

\* What the two entries do with the document and its name before analyze is
\* called.  POST /analyze: the construction of the parameter.  POST
\* /analyze-upload: the handler's extension check, then the read of the
\* upload and its encoding, the form fields, the construction.
analyze_cv_upload_ingress_steps(q) ==
    IF Len(q.cv_filename) = 0 THEN <<>>
    ELSE IF ~EndsWithAllowed(q.cv_filename) THEN <<"check_extension">>
    ELSE <<"check_extension", "read", "b64encode">>
         \o (IF q.form_json THEN CVAnalysisRequest_steps(q) ELSE <<>>)

ingress_steps(q) ==
    IF q.endpoint = "analyze" THEN CVAnalysisRequest_steps(q)
    ELSE analyze_cv_upload_ingress_steps(q)

\* ------------------------------------------------------- actions
Init ==
    /\ settings \in Settings
    /\ providers = initialize_providers(settings)
    /\ utc_day = 1
    /\ pc = [r \in Reqs |-> "idle"]
    /\ frame = [r \in Reqs |-> NoFrame]
    /\ http = [r \in Reqs |-> None]
    /\ \E db \in AuditDatabases :
         /\ cv_analysis_logs = db.logs
         /\ token_usage = db.usage

\* A finished handler's reply is sent before the loop runs another handler:
\* Respond commutes with every step of the other requests.
NoneResponding == \A r \in Reqs : pc[r] # "responding"

\* A request arrives and passes, or fails, ingress validation.
Receive(r) ==
    /\ pc[r] = "idle"
    /\ \A o \in Reqs : o < r => pc[o] # "idle"
    /\ NoneResponding
    /\ \E q \in Requests :
         LET i == ingress(q)
         IN  IF i.reply # None
             THEN /\ pc' = [pc EXCEPT ![r] = "responding"]
                  /\ frame' = [frame EXCEPT ![r] = [NoFrame EXCEPT !.received = Some(q),
                                                                !.steps = ingress_steps(q)]]
                  /\ http' = [http EXCEPT ![r] = i.reply]
             ELSE /\ pc' = [pc EXCEPT ![r] = "received"]
                  /\ frame' = [frame EXCEPT ![r] = NewFrame(Get(i.request))]
                  /\ http' = http
    /\ UNCHANGED <<settings, providers, utc_day, cv_analysis_logs, token_usage>>

\* The rest of analyze and of the handler once it cannot suspend any more.
Finish(r, f, ms, db) ==
    LET m == analyze_finish([f |-> analyze_after_call(f, r, ms, utc_day),
                             logs |-> cv_analysis_logs, usage |-> token_usage],
                            r, ms, utc_day, db)
    IN  /\ frame' = [frame EXCEPT ![r] = m.f]
        /\ cv_analysis_logs' = m.logs
        /\ token_usage' = m.usage
        /\ http' = [http EXCEPT ![r] = Some(analyze_cv_reply(m.f))]
        /\ pc' = [pc EXCEPT ![r] = "responding"]

\* The handler calls analyze, which runs to its first suspension: the await of
\* an OpenAI or Anthropic call.  A failure before it, or a Gemini call, which
\* does not suspend, runs analyze to its end.
StartAnalysis(r) ==
    /\ pc[r] = "received"
    /\ NoneResponding
    /\ \E doc \in DocOutcomes :
         LET f == analyze_before_call(frame[r], doc)
         IN  IF f.pending # None
             THEN \E db \in DbOutcomes, ms \in ElapsedMs : Finish(r, f, ms, db)
             ELSE IF Suspends(Get(f.provider))
             THEN /\ pc' = [pc EXCEPT ![r] = "awaiting"]
                  /\ frame' = [frame EXCEPT ![r] = f]
                  /\ UNCHANGED <<http, cv_analysis_logs, token_usage>>
             ELSE \E out \in GenOutcomes, db \in DbOutcomes, ms \in ElapsedMs :
                    Finish(r, generate_result(f, out), ms, db)
    /\ UNCHANGED <<settings, providers, utc_day>>

\* The awaited provider call completes or fails; analyze runs to its end.
ProviderReturns(r) ==
    /\ pc[r] = "awaiting"
    /\ NoneResponding
    /\ \E out \in GenOutcomes, db \in DbOutcomes, ms \in ElapsedMs :
         Finish(r, generate_result(frame[r], out), ms, db)
    /\ UNCHANGED <<settings, providers, utc_day>>

\* The reply is sent and the handler's frame is gone.
Respond(r) ==
    /\ pc[r] = "responding"
    /\ pc' = [pc EXCEPT ![r] = "closed"]
    /\ frame' = [frame EXCEPT ![r] = NoFrame]
    /\ http' = [http EXCEPT ![r] = None]
    /\ UNCHANGED <<settings, providers, utc_day, cv_analysis_logs, token_usage>>

Next ==
    \/ \E r \in Reqs : Receive(r)
    \/ \E r \in Reqs : StartAnalysis(r)
    \/ \E r \in Reqs : ProviderReturns(r)
    \/ \E r \in Reqs : Respond(r)

Spec == Init /\ [][Next]_vars

\* ------------------------------------------------------- properties
Count(seq, x) == Cardinality({i \in 1..Len(seq) : seq[i] = x})

\* analyze was called for request r and has returned or raised; the handler
\* holds its reply.
Ran(r) == pc[r] = "responding" /\ frame[r].request # None

\* The audit rows of request r's run.
Rows(r) == {l \in cv_analysis_logs : l.analysis_id = r}

ReplyOf(r) == Get(http[r])

\* C1: every invocation of analyze that returns or raises has attempted
\* exactly one audit write, and attempted it before control went back to the
\* caller; a run still waiting for its provider has attempted none.
C1_OneAuditWritePerRun ==
    \A r \in Reqs :
        LET s == frame[r].steps
        IN  /\ pc[r] = "awaiting" => Count(s, "audit") = 0
            /\ Ran(r) => /\ Count(s, "audit") = 1
                         /\ s[Len(s) - 1] = "audit"
                         /\ s[Len(s)] \in {"return", "raise"}

\* A successful run whose audit write the database refused: one attempt, no row.
C1_SuccessAuditedOnce ==
    \E r \in Reqs :
        /\ Ran(r)
        /\ frame[r].steps[Len(frame[r].steps)] = "return"
        /\ Count(frame[r].steps, "audit") = 1
        /\ Rows(r) = {}

\* The six steps of analyze before the audit write, in the order of the code.
PipelineSteps ==
    <<"parse_document", "get_provider", "build_prompt", "generate",
      "parse_llm_response", "build_response">>

\* The step a failed run stopped at, read from what the frame holds: the
\* exception caught and the locals assigned so far.
FailingStep(f) ==
    CASE Get(f.pending).type = "DocumentParserError" -> 1
      [] Get(f.pending).type = "LLMProviderError" /\ f.provider = None -> 2
      [] Get(f.pending).type = "LLMProviderError" -> 4
      [] f.analysis_result = None -> 5
      [] OTHER -> 6

\* C2: the steps run in the order parse document, select provider, build
\* prompt, call provider, validate, assemble, audit; when a step fails no later
\* step runs except the audit write, so the provider is never called after a
\* parse or selection failure.
C2_StepsInOrderStopAtFirstFailure ==
    \A r \in Reqs :
        LET f == frame[r]
        IN  /\ pc[r] = "awaiting" => f.steps = SubSeq(PipelineSteps, 1, 4)
            /\ (Ran(r) /\ f.pending = None) =>
                  f.steps = PipelineSteps \o <<"audit", "return">>
            /\ (Ran(r) /\ f.pending # None) =>
                  /\ f.steps = SubSeq(PipelineSteps, 1, FailingStep(f)) \o <<"audit", "raise">>
                  /\ FailingStep(f) < 4 => Count(f.steps, "generate") = 0

\* A run whose provider selection failed: two steps, the audit write, the raise.
C2_SelectionFailureStops ==
    \E r \in Reqs :
        /\ Ran(r)
        /\ frame[r].pending # None
        /\ Get(frame[r].pending).type = "LLMProviderError"
        /\ frame[r].provider = None
        /\ frame[r].steps = <<"parse_document", "get_provider", "audit", "raise">>

\* What the pipeline alone decides the caller gets: the result, or the
\* pipeline's error as an analysis error.
PipelineOutcome(f, reply) ==
    /\ f.pending = None =>
          /\ f.response # None
          /\ reply = Reply(200, "", <<>>, f.response)
    /\ f.pending # None =>
          /\ reply.status = 400
          /\ reply.error = "AnalysisError"
          /\ reply.body = None
          /\ SubSeq(reply.message, 2, Len(reply.message)) = Get(f.pending).msg

\* C3: when the audit write fails, the caller still gets what the pipeline
\* decided: the result of a successful analysis, or the pipeline's original
\* error and never the audit error.
C3_AuditFailureInvisible ==
    \A r \in Reqs :
        (Ran(r) /\ frame[r].audit_log # None) =>
            /\ PipelineOutcome(frame[r], ReplyOf(r))
            /\ ~Contains(ReplyOf(r).message, "database is locked")

\* A failed run whose audit write failed too: no row, and the reply is the
\* pipeline's error.
C3_FailedRunAuditFailed ==
    \E r \in Reqs :
        /\ Ran(r)
        /\ frame[r].pending # None
        /\ frame[r].audit_log # None
        /\ Rows(r) = {}
        /\ ReplyOf(r).status = 400

\* The provider call failed with an exception outside the SDK's error class.
NetworkFailure(f) ==
    /\ f.pending # None
    /\ Get(f.pending).type = "LLMProviderError"
    /\ Contains(Get(f.pending).msg, "Unexpected error: ")

\* The reply is an analysis error naming the provider and the underlying message.
NamesProviderAndCause(f, reply) ==
    /\ reply.error = "AnalysisError"
    /\ Contains(reply.message, Get(f.provider))
    /\ Contains(reply.message, "Connection reset by peer")

C5_MalformedIsValidationError ==
    \A r \in Reqs :
        (/\ pc[r] = "responding"
         /\ frame[r].received # None
         /\ Malformed(Get(frame[r].received))) =>
            /\ ReplyOf(r).error \in {"ValidationError", "RequestValidationError"}
            /\ ReplyOf(r).error # "InternalServerError"

\* C6 as stated: a document or provider failure is reported with the
\* analysis-error tag, and any other failure inside the pipeline with the
\* internal-error tag.
C6_UnanticipatedIsInternalError ==
    \A r \in Reqs :
        (Ran(r) /\ frame[r].pending # None) =>
            IF Get(frame[r].pending).type \in {"DocumentParserError", "LLMProviderError"}
            THEN ReplyOf(r).error = "AnalysisError"
            ELSE ReplyOf(r).error = "InternalServerError"

\* C6, amended: every failure inside the pipeline, whether of the document,
\* of the provider or unanticipated, is reported with the analysis-error tag
\* and status 400; the three categories differ in the prefix of the non-empty
\* message; the internal-error tag is given only to requests that never
\* reached the pipeline.
C6_PipelineFailuresAreAnalysisErrors ==
    \A r \in Reqs :
        /\ (Ran(r) /\ frame[r].pending # None) =>
              /\ ReplyOf(r).status = 400
              /\ ReplyOf(r).error = "AnalysisError"
              /\ Len(ReplyOf(r).message) > 1
              /\ ReplyOf(r).message[1] =
                    CASE Get(frame[r].pending).type = "DocumentParserError" ->
                            "Failed to parse CV document: "
                      [] Get(frame[r].pending).type = "LLMProviderError" ->
                            "LLM analysis failed: "
                      [] OTHER -> "Analysis failed: "
        /\ (pc[r] = "responding" /\ ReplyOf(r).error = "InternalServerError") =>
              frame[r].request = None

\* A run that failed with a ValueError while the response was assembled and
\* was answered as an analysis error.
C6_ValueErrorAnsweredAsAnalysisError ==
    \E r \in Reqs :
        /\ Ran(r)
        /\ frame[r].pending # None
        /\ Get(frame[r].pending).type = "ValueError"
        /\ ReplyOf(r).error = "AnalysisError"
        /\ ReplyOf(r).message[1] = "Analysis failed: "

\* C7: within one run no step is taken twice; in particular the provider's
\* generate is invoked at most once whatever MAX_RETRIES is, also when the
\* call fails.
C7_GenerateAtMostOnce ==
    \A r \in Reqs :
        /\ Count(frame[r].steps, "generate") <= 1
        /\ \A i, j \in 1..Len(frame[r].steps) :
              frame[r].steps[i] = frame[r].steps[j] => i = j

\* A run under MAX_RETRIES = 3 whose provider call failed: one call.
C7_FailedCallNotRepeated ==
    \E r \in Reqs :
        /\ Ran(r)
        /\ settings.MAX_RETRIES = DEFAULT_MAX_RETRIES
        /\ frame[r].pending # None
        /\ Get(frame[r].pending).type = "LLMProviderError"
        /\ frame[r].provider # None
        /\ Count(frame[r].steps, "generate") = 1

\* The provider answered with a JSON object that lacks a required key.
PartialObject(f) ==
    /\ f.llm_response # None
    /\ Get(f.llm_response).content.json = "object"
    /\ DOMAIN Get(f.llm_response).content.value # RequiredSet

BadRecommendation(f) ==
    /\ f.llm_response # None
    /\ LET c == Get(f.llm_response).content
       IN  /\ c.json = "object"
           /\ DOMAIN c.value = RequiredSet
           /\ c.value["recommendation"] \notin RecommendationValues
           /\ c.value["overall_score"] \in 0..100
           /\ \A i \in 1..Len(c.value["section_scores"]) :
                 SectionScore_valid(c.value["section_scores"][i])

\* C9: when the answer is valid except that its recommendation is outside the
\* five allowed values, the step that ends the run leaves no result for the
\* caller, writes no row other than an error row of this run (and writes that
\* row unless the audit write itself failed), and leaves the token-usage
\* aggregate as it was.
C9_InvalidRecommendationFailsRun ==
    [][ \A r \in Reqs :
          (pc[r] # "responding" /\ pc'[r] = "responding" /\ BadRecommendation(frame'[r])) =>
              /\ frame'[r].response = None
              /\ Get(http'[r]).status = 400
              /\ Get(http'[r]).body = None
              /\ token_usage' = token_usage
              /\ \A l \in cv_analysis_logs' \ cv_analysis_logs :
                    l.analysis_id = r /\ l.status = "error"
              /\ frame'[r].audit_log = None =>
                    \E l \in cv_analysis_logs' \ cv_analysis_logs : l.status = "error"
      ]_vars

\* A run refused for its recommendation, its error row stored, beside an
\* aggregate that holds an earlier success.
C9_RefusedBesideAggregate ==
    \E r \in Reqs :
        /\ Ran(r)
        /\ BadRecommendation(frame[r])
        /\ \E l \in Rows(r) : l.status = "error"
        /\ token_usage # {}
        /\ ReplyOf(r).status = 400

\* C10 as stated: every SectionScore of a returned result has
\* weighted_score = score * weight / 100, whatever the provider's entry said.
C10_WeightedScoreRecomputed ==
    \A r \in Reqs :
        (Ran(r) /\ ReplyOf(r).status = 200) =>
            \A i \in 1..Len(Get(ReplyOf(r).body).section_scores) :
                LET e == Get(ReplyOf(r).body).section_scores[i]
                IN  e.weighted_score * 100 = e.score * e.weight

\* ------------------------------------------------------- fenced answers
\* The text of a model answer as a sequence of tokens: the fence (three
\* backticks), a language tag, a line break, a blank, the braces of a JSON
\* object and the name of its body.
Whitespace == {" ", "\n"}

\* The three backticks of a code fence.
FenceMark == "fence"

\* The bodies of answers that match the documented schema.
AnswerOf(b) ==
    CASE b = "body_yes" -> Answer(RequiredSet, 50, "yes", <<Entry(80, 50, 40)>>)
      [] b = "body_no" -> Answer(RequiredSet, 50, "strong_no", <<Entry(80, 50, 40)>>)
      [] OTHER -> Answer(RequiredSet, 100, "yes", <<Entry(80, 50, 40), Entry(60, 50, 30)>>)

BodyNames == {"body_yes", "body_no", "body_two"}

\* The two layouts a serializer gives an object: on one line, or indented.
Serialized(b, layout) ==
    IF layout = "compact" THEN <<"{", b, "}">> ELSE <<"{", "\n", " ", b, "\n", "}">>

RECURSIVE lstrip(_)
lstrip(text) ==
    IF text # <<>> /\ Head(text) \in Whitespace THEN lstrip(Tail(text)) ELSE text

RECURSIVE rstrip(_)
rstrip(text) ==
    IF text # <<>> /\ text[Len(text)] \in Whitespace
    THEN rstrip(SubSeq(text, 1, Len(text) - 1)) ELSE text

\* str.strip()
strip(text) == rstrip(lstrip(text))

\* str.find('\n'), counted from 1; 0 when there is none.
find_newline(text) ==
    IF \E i \in 1..Len(text) : text[i] = "\n"
    THEN CHOOSE i \in 1..Len(text) :
            text[i] = "\n" /\ \A j \in 1..(i - 1) : text[j] # "\n"
    ELSE 0

\* Variant: only the three backticks of the opening fence are removed.
clean_content_backticks_only(llm_content) ==
    LET c0 == strip(llm_content)
    IN  IF c0 # <<>> /\ Head(c0) = FenceMark
        THEN LET c1 == Tail(c0)
             IN  IF c1 # <<>> /\ c1[Len(c1)] = FenceMark
                 THEN rstrip(SubSeq(c1, 1, Len(c1) - 1)) ELSE c1
        ELSE c0

\* CVAnalyzer._parse_llm_response, the cleaning before json.loads: strip, and
\* for a text that starts with a fence drop everything up to the first line
\* break, if there is one, and then a trailing fence, if there is one.
clean_content(llm_content) ==
    LET c0 == strip(llm_content)
    IN  IF c0 # <<>> /\ Head(c0) = FenceMark
        THEN LET n == find_newline(c0)
                 c1 == IF n # 0 THEN SubSeq(c0, n + 1, Len(c0)) ELSE c0
             IN  IF c1 # <<>> /\ c1[Len(c1)] = FenceMark
                 THEN rstrip(SubSeq(c1, 1, Len(c1) - 1)) ELSE c1
        ELSE c0

\* json.loads: white space between tokens is insignificant; the text is a
\* JSON object exactly when what remains is an opening brace, a body and a
\* closing brace.
json_loads(text) ==
    LET t == SelectSeq(text, LAMBDA x : x \notin Whitespace)
    IN  IF Len(t) = 3 /\ t[1] = "{" /\ t[2] \in BodyNames /\ t[3] = "}"
        THEN [json |-> "object", value |-> AnswerOf(t[2]), items |-> <<>>]
        ELSE [json |-> "invalid", value |-> <<>>, items |-> <<>>]

\* CVAnalyzer._parse_llm_response on the raw text.
parse_llm_text(llm_content) == parse_llm_response(json_loads(clean_content(llm_content)))

\* The ways an answer is wrapped in a fenced block: a language tag or none,
\* a line break after the opening fence or none, a line break before the
\* trailing fence or none, blank lines around the block or none.
Fences ==
    [tag : BOOLEAN, break : BOOLEAN, last_break : BOOLEAN, padded : BOOLEAN]

Fenced(text, w) ==
    (IF w.padded THEN <<"\n">> ELSE <<>>)
    \o <<FenceMark>> \o (IF w.tag THEN <<"json">> ELSE <<>>)
    \o (IF w.break THEN <<"\n">> ELSE <<>>)
    \o text
    \o (IF w.last_break THEN <<"\n">> ELSE <<>>) \o <<FenceMark>>
    \o (IF w.padded THEN <<"\n", " ">> ELSE <<>>)

\* The state outside the function under study: one deployment, empty tables.
Quiet ==
    /\ settings = Deployment(ProviderSet, "openai", DEFAULT_MAX_RETRIES)
    /\ providers = initialize_providers(settings)
    /\ utc_day = 1
    /\ http = <<>>
    /\ cv_analysis_logs = {}
    /\ token_usage = {}

FenceInit ==
    /\ Quiet
    /\ pc = "answer"
    /\ \E b \in BodyNames, layout \in {"compact", "indented"}, w \in Fences :
          frame = [answer |-> Serialized(b, layout), fence |-> w,
                   plain |-> None, fenced |-> None]

\* The answer is validated as it is and inside its fenced block.
ParseAnswer ==
    /\ pc = "answer"
    /\ pc' = "parsed"
    /\ frame' = [frame EXCEPT
                    !.plain = Some(parse_llm_text(frame.answer)),
                    !.fenced = Some(parse_llm_text(Fenced(frame.answer, frame.fence)))]
    /\ UNCHANGED <<settings, providers, utc_day, http, cv_analysis_logs, token_usage>>

FenceNext == ParseAnswer

FenceSpec == FenceInit /\ [][FenceNext]_vars

\* Both validations succeed and give the same parsed structure.
SameParse(f) ==
    /\ Get(f.plain).exc = None
    /\ Get(f.fenced).exc = None
    /\ Get(f.fenced).value = Get(f.plain).value
    /\ Get(Get(f.plain).value).json = "object"

EnvDefaults == {None, Some(""), Some("auto"), Some("openai"), Some("gemini")}

\* Settings.DEFAULT_LLM_PROVIDER: the environment's value, or "openai".
load_default(env) == IF env = None THEN "openai" ELSE Get(env)

\* The names get_provider may be asked for; None and "" are alike to it.
Selectors == {"", "auto", "openai", "anthropic", "gemini", "llama"}

FactoryInit ==
    /\ \E keys \in SUBSET ProviderSet, env \in EnvDefaults, name \in Selectors :
          /\ settings = Deployment(keys, load_default(env), DEFAULT_MAX_RETRIES)
          /\ frame = [env_default |-> env, provider_name |-> name, selected |-> None]
    /\ providers = initialize_providers(settings)
    /\ pc = "selecting"
    /\ utc_day = 1
    /\ http = <<>>
    /\ cv_analysis_logs = {}
    /\ token_usage = {}

\* llm_factory.get_provider(name)
SelectProvider ==
    /\ pc = "selecting"
    /\ pc' = "selected"
    /\ frame' = [frame EXCEPT
                    !.selected = Some(get_provider(frame.provider_name, providers, settings))]
    /\ UNCHANGED <<settings, providers, utc_day, http, cv_analysis_logs, token_usage>>

FactoryNext == SelectProvider

FactorySpec == FactoryInit /\ [][FactoryNext]_vars

\* The providers that are available: those whose API key is set.
Available == {p \in ProviderSet : p \in settings.api_keys}

\* The first available provider in the order openai, anthropic, gemini.
FirstAvailable ==
    ProviderNames[CHOOSE i \in 1..Len(ProviderNames) :
                     /\ ProviderNames[i] \in Available
                     /\ \A j \in 1..(i - 1) : ProviderNames[j] \notin Available]

\* C12 as stated: the selector "auto" resolves to the configured default
\* name; when that default is itself "auto" or is unset (empty or missing)
\* selection returns the first available provider in the order openai,
\* anthropic, gemini, and fails only when no provider is available.
C12_AutoFallsBackToFirstAvailable ==
    (pc = "selected" /\ frame.provider_name = "auto") =>
        LET got == Get(frame.selected)
        IN  IF frame.env_default \in {None, Some(""), Some("auto")}
            THEN IF Available = {} THEN got.exc # None
                 ELSE got.exc = None /\ Get(got.value) = FirstAvailable
            ELSE IF Get(frame.env_default) \in Available
                 THEN got.exc = None /\ Get(got.value) = Get(frame.env_default)
                 ELSE got.exc # None

\* The names an error message lists after "Available providers: ".
ListedNames(msg) ==
    LET i == CHOOSE k \in 1..Len(msg) : msg[k] = "' not available. Available providers: "
    IN  SubSeq(msg, i + 1, Len(msg))

\* C13: selecting a named provider that is not available fails with a
\* provider error that carries the requested name and lists exactly the
\* available providers, each once.
C13_UnavailableListsAvailable ==
    (/\ pc = "selected"
     /\ frame.provider_name \notin {"", "auto"}
     /\ frame.provider_name \notin Available) =>
        LET got == Get(frame.selected)
        IN  /\ got.exc # None
            /\ got.value = None
            /\ Get(got.exc).type = "LLMProviderError"
            /\ Get(got.exc).msg[2] = frame.provider_name
            /\ Contains(Get(got.exc).msg, "' not available. Available providers: ")
            /\ LET listed == ListedNames(Get(got.exc).msg)
               IN  /\ {listed[k] : k \in 1..Len(listed)} = Available
                   /\ Len(listed) = Cardinality(Available)

\* openai is asked for where only anthropic and gemini are configured.
C13_OpenaiAbsent ==
    /\ pc = "selected"
    /\ frame.provider_name = "openai"
    /\ Available = {"anthropic", "gemini"}
    /\ Get(frame.selected).exc # None
    /\ ListedNames(Get(Get(frame.selected).exc).msg) = <<"anthropic", "gemini">>

\* ------------------------------------------------------- audit store
\* The audit database under several writers: every call of log_analysis,
\* from whichever worker process, is an INSERT with its commit and, for a
\* success with a truthy token count, a second statement on a new connection,
\* the upsert of _update_token_usage.  SQLite executes each statement
\* atomically; statements of different writers interleave.
MaxWriters == 2
Writers == 1..MaxWriters

\* The arguments of one log_analysis call.
LogCall(id, llm_provider, tokens_used, status) ==
    [analysis_id |-> id, timestamp |-> utc_day, cv_filename |-> <<"cv", ".pdf">>,
     position_title |-> "Engineer", llm_provider |-> llm_provider,
     llm_model |-> "unknown", prompt_version |-> "v1", tokens_used |-> tokens_used,
     processing_time_ms |-> 3, overall_score |-> None, recommendation |-> None,
     status |-> status, error_message |-> None]

\* A writer's own analysis id, or the id the first writer uses.
IdsOf(w) == {w, 1}

AuditInit ==
    /\ settings = Deployment(ProviderSet, "openai", DEFAULT_MAX_RETRIES)
    /\ providers = initialize_providers(settings)
    /\ utc_day = 1
    /\ pc = [w \in Writers |-> "idle"]
    /\ frame = [w \in Writers |-> None]
    /\ http = None
    /\ cv_analysis_logs = {}
    /\ token_usage = {}

\* log_analysis up to its commit.  http holds the latest call: its writer,
\* its arguments, what it raised to its caller and what it logged.
AuditInsert(w) ==
    /\ pc[w] = "idle"
    /\ \E id \in IdsOf(w), p \in {"auto", "openai"}, t \in TokenCounts,
          st \in {"success", "error"}, db \in {"ok", "insert_error"} :
          LET row == LogCall(id, p, t, st)
              ins == insert_log(cv_analysis_logs, row, db)
              more == ins.exc = None /\ needs_upsert(row)
          IN  /\ cv_analysis_logs' = ins.logs
              /\ pc' = [pc EXCEPT ![w] = IF more THEN "inserted" ELSE "done"]
              /\ frame' = [frame EXCEPT ![w] = IF more THEN Some(row) ELSE None]
              /\ http' = Some([writer |-> w, row |-> row, exc |-> None, logged |-> ins.exc])
    /\ UNCHANGED <<settings, providers, utc_day, token_usage>>

\* _update_token_usage for the row just inserted.
AuditUpsert(w) ==
    /\ pc[w] = "inserted"
    /\ token_usage' = update_token_usage(token_usage, Get(frame[w]).llm_provider,
                                         Get(Get(frame[w]).tokens_used), utc_day, "ok")
    /\ pc' = [pc EXCEPT ![w] = "done"]
    /\ frame' = [frame EXCEPT ![w] = None]
    /\ UNCHANGED <<settings, providers, utc_day, http, cv_analysis_logs>>

AuditNext ==
    \/ \E w \in Writers : AuditInsert(w)
    \/ \E w \in Writers : AuditUpsert(w)

AuditSpec == AuditInit /\ [][AuditNext]_vars

\* This step is writer w's INSERT.
InsertStep(w) == pc[w] = "idle" /\ pc'[w] # "idle"

\* C14: a log_analysis call with an analysis id that is already stored raises
\* nothing to its caller, leaves every stored row as it was, adds no row, is
\* followed by no aggregate update, and leaves the aggregate as it was.
C14_DuplicateIdLeavesStoreAlone ==
    [][ \A w \in Writers :
          (/\ InsertStep(w)
           /\ \E l \in cv_analysis_logs : l.analysis_id = Get(http').row.analysis_id) =>
              /\ Get(http').exc = None
              /\ cv_analysis_logs' = cv_analysis_logs
              /\ token_usage' = token_usage
              /\ pc'[w] = "done"
      ]_vars

\* The second writer has written the first writer's id with other values:
\* one row, the first writer's, and the first writer's aggregate.
C14_DuplicateRefused ==
    /\ \A w \in Writers : pc[w] = "done"
    /\ http # None
    /\ Get(http).writer = 2
    /\ Get(http).row.analysis_id = 1
    /\ needs_upsert(Get(http).row)
    /\ Get(http).row.llm_provider = "openai"
    /\ Get(http).logged # None
    /\ Get(Get(http).logged).type = "IntegrityError"
    /\ Cardinality(cv_analysis_logs) = 1
    /\ \E l \in cv_analysis_logs : l.analysis_id = 1 /\ l.llm_provider = "auto"
    /\ token_usage = {[date |-> 1, llm_provider |-> "auto",
                       total_tokens |-> 1, request_count |-> 1]}

\* The stored rows of successful analyses of today with a known token count
\* under provider p.
SuccessRows(p) ==
    {l \in cv_analysis_logs :
        /\ l.status = "success" /\ l.tokens_used # None
        /\ l.llm_provider = p /\ l.timestamp = utc_day}

RECURSIVE SumTokens(_)
SumTokens(rows) ==
    IF rows = {} THEN 0
    ELSE LET l == CHOOSE x \in rows : TRUE
         IN  Get(l.tokens_used) + SumTokens(rows \ {l})

\* C15 as stated: once the writers' calls have completed, in whatever order
\* their statements interleaved, the aggregate row of a (date, provider) has
\* total_tokens equal to the sum of the token counts of the successful writes
\* under it and request_count equal to their number.
C15_AggregateIsSumAndCount ==
    (\A w \in Writers : pc[w] # "inserted") =>
        \A p \in {"auto", "openai"} :
            SuccessRows(p) # {} =>
                \E u \in token_usage :
                    /\ u.date = utc_day /\ u.llm_provider = p
                    /\ u.total_tokens = SumTokens(SuccessRows(p))
                    /\ u.request_count = Cardinality(SuccessRows(p))

\* The aggregate of (date, provider) as a pair, zero when there is no row.
Aggregate(usage, date, p) ==
    IF \E u \in usage : u.date = date /\ u.llm_provider = p
    THEN LET u == CHOOSE x \in usage : x.date = date /\ x.llm_provider = p
         IN  <<u.total_tokens, u.request_count>>
    ELSE <<0, 0>>

\* C16 as stated: a stored success whose token count is not null, a count of
\* 0 included, is followed by the upsert of its (date, provider), which adds
\* the count to total_tokens and one to request_count and touches no other
\* row; a call with status "error" or a null count changes no aggregate row.
C16_KnownCountAlwaysUpserts ==
    [][ \A w \in Writers :
          /\ InsertStep(w) =>
                LET row == Get(http').row
                IN  /\ token_usage' = token_usage
                    /\ (/\ row.status = "success" /\ row.tokens_used # None
                        /\ row \in cv_analysis_logs' \ cv_analysis_logs) =>
                            pc'[w] = "inserted"
                    /\ (row.status = "error" \/ row.tokens_used = None) => pc'[w] = "done"
          /\ (pc[w] = "inserted" /\ pc'[w] = "done") =>
                LET row == Get(frame[w])
                    was == Aggregate(token_usage, utc_day, row.llm_provider)
                    now == Aggregate(token_usage', utc_day, row.llm_provider)
                IN  /\ now[1] = was[1] + Get(row.tokens_used)
                    /\ now[2] = was[2] + 1
                    /\ \A q \in {"auto", "openai"} \ {row.llm_provider} :
                          Aggregate(token_usage', utc_day, q) =
                              Aggregate(token_usage, utc_day, q)
      ]_vars


\* ------------------------------------------------------- prompt versions
\* PromptManager._load_prompts: the cache holds one entry per .txt file of the
\* prompts directory, keyed by the file's stem.  A key is written as the pair
\* of its version and its suffix.
LoadedPrompts == {<<"v1", "_analysis">>}

\* PromptManager.get_prompt: the template of a version tag, or ValueError
\* listing the cached keys.
get_prompt(version, cache) ==
    IF <<version, "_analysis">> \in cache THEN Ok(<<version, "_analysis">>)
    ELSE IF <<version>> \in cache THEN Ok(<<version>>)
    ELSE Raise(Exc("ValueError", <<"Prompt version '", version,
                                   "' not found. Available versions: ", cache>>))

\* Requests that differ in their prompt_version tag; the field has no
\* validator, every string is accepted at ingress.
PromptVersions == {"v1", "v9"}

VersionedRequests ==
    { [BaseRequest EXCEPT !.prompt_version = v, !.llm_provider = p] :
        v \in PromptVersions, p \in {"auto", "gemini"} }

ReceiveVersioned(r) ==
    /\ pc[r] = "idle"
    /\ \A o \in Reqs : o < r => pc[o] # "idle"
    /\ NoneResponding
    /\ \E q \in VersionedRequests :
         LET i == ingress(q)
         IN  IF i.reply # None
             THEN /\ pc' = [pc EXCEPT ![r] = "responding"]
                  /\ frame' = [frame EXCEPT ![r] = [NoFrame EXCEPT !.received = Some(q),
                                                                !.steps = ingress_steps(q)]]
                  /\ http' = [http EXCEPT ![r] = i.reply]
             ELSE /\ pc' = [pc EXCEPT ![r] = "received"]
                  /\ frame' = [frame EXCEPT ![r] = NewFrame(Get(i.request))]
                  /\ http' = http
    /\ UNCHANGED <<settings, providers, utc_day, cv_analysis_logs, token_usage>>

PromptNext ==
    \/ \E r \in Reqs : ReceiveVersioned(r)
    \/ \E r \in Reqs : StartAnalysis(r)
    \/ \E r \in Reqs : ProviderReturns(r)
    \/ \E r \in Reqs : Respond(r)

PromptSpec == Init /\ [][PromptNext]_vars

\* The version tag of request r's run is not among the loaded templates.
UnknownVersion(r) ==
    get_prompt(Get(frame[r].request).prompt_version, LoadedPrompts).exc # None

\* C17: a run that reaches prompt assembly with a prompt_version tag that is
\* not a loaded template version fails with an error that names the tag and
\* lists the available ones; the provider is not called, no result is returned
\* and no row of the run says success.
C17_UnknownVersionFails ==
    \A r \in Reqs :
        (Ran(r) /\ UnknownVersion(r) /\ Count(frame[r].steps, "build_prompt") = 1) =>
            /\ Count(frame[r].steps, "generate") = 0
            /\ frame[r].response = None
            /\ ReplyOf(r).status # 200
            /\ Contains(ReplyOf(r).message, "' not found. Available versions: ")
            /\ \A l \in Rows(r) : l.status = "error"


\* ------------------------------------------------------- user prompt
\* A Python string as the sequence of its non-empty fragments: "" is <<>>.
Text(s) == IF s = "" THEN <<>> ELSE <<s>>

\* sep.join(texts)
RECURSIVE join(_, _)
join(sep, texts) ==
    IF Len(texts) = 0 THEN <<>>
    ELSE IF Len(texts) = 1 THEN texts[1]
    ELSE texts[1] \o <<sep>> \o join(sep, Tail(texts))

\* The optional fields as a client sends them: None is an omitted field.
SkillLists == {None, Some(<<>>), Some(<<"Python">>), Some(<<"Python", "SQL">>)}
GuidelineTexts == {None, Some(""), Some("Prefer evidence")}

PositionFrameworks ==
    [key_requirements : {None, Some(<<>>), Some(<<"Python">>)},
     must_have_skills : SkillLists,
     nice_to_have_skills : {None, Some(<<>>), Some(<<"Python">>)}]

CompanyCriterias ==
    [values : {None, Some(<<>>), Some(<<"Python">>)},
     evaluation_guidelines : GuidelineTexts,
     disqualifiers : SkillLists]

\* PositionFramework(...).model_dump(): an omitted list is the empty list.
PositionFramework_dump(pf) ==
    [k \in DOMAIN pf |-> IF pf[k] = None THEN Some(<<>>) ELSE pf[k]]

\* CompanyCriteria(...).model_dump(): an omitted list is the empty list, an
\* omitted evaluation_guidelines is the empty string.
CompanyCriteria_dump(c) ==
    [k \in DOMAIN c |->
        IF c[k] # None THEN c[k]
        ELSE IF k = "evaluation_guidelines" THEN Some("") ELSE Some(<<>>)]

\* dict.get(key, default)
dict_get(d, key, default) == IF d[key] = None THEN default ELSE Get(d[key])

Texts(items) == [i \in 1..Len(items) |-> Text(items[i])]

\* PromptManager.build_analysis_prompt: the text that the user prompt holds
\* in the position of each optional field.
build_analysis_prompt(position_framework, company_criteria) ==
    LET key_requirements == dict_get(position_framework, "key_requirements", <<>>)
        requirements_text ==
            join("\n", [i \in 1..Len(key_requirements) |->
                            <<"- ">> \o Text(key_requirements[i])])
        must_have == join(", ", Texts(dict_get(position_framework, "must_have_skills", <<>>)))
        nice_to_have ==
            join(", ", Texts(dict_get(position_framework, "nice_to_have_skills", <<>>)))
        values_text == join(", ", Texts(dict_get(company_criteria, "values", <<>>)))
        disqualifiers == dict_get(company_criteria, "disqualifiers", <<>>)
    IN  [key_requirements |->
            IF requirements_text # <<>> THEN requirements_text ELSE <<"Not specified">>,
         must_have_skills |-> IF must_have # <<>> THEN must_have ELSE <<"Not specified">>,
         nice_to_have_skills |->
            IF nice_to_have # <<>> THEN nice_to_have ELSE <<"Not specified">>,
         values |-> IF values_text # <<>> THEN values_text ELSE <<"Not specified">>,
         evaluation_guidelines |->
            Text(dict_get(company_criteria, "evaluation_guidelines", "Not specified")),
         disqualifiers |->
            IF disqualifiers # <<>> THEN join(", ", Texts(disqualifiers))
            ELSE <<"None specified">>]

RenderInit ==
    /\ Quiet
    /\ pc = "building"
    /\ \E pf \in PositionFrameworks, c \in CompanyCriterias :
          frame = [position_framework |-> pf, company_criteria |-> c, user_prompt |-> None]

\* CVAnalyzer._build_prompt: the two models are dumped and rendered.
BuildPrompt ==
    /\ pc = "building"
    /\ pc' = "built"
    /\ frame' = [frame EXCEPT !.user_prompt =
                    Some(build_analysis_prompt(PositionFramework_dump(frame.position_framework),
                                               CompanyCriteria_dump(frame.company_criteria)))]
    /\ UNCHANGED <<settings, providers, utc_day, http, cv_analysis_logs, token_usage>>

RenderNext == BuildPrompt

RenderSpec == RenderInit /\ [][RenderNext]_vars

\* An optional list field that the client omitted or sent empty.
BlankList(v) == v = None \/ Get(v) = <<>>

\* C18: for each of the six optional fields the user prompt interpolates (key
\* requirements, must-have skills, nice-to-have skills, company values,
\* evaluation guideline, disqualifiers), a missing or empty field is rendered
\* as the placeholder "Not specified" in the field's position.
C18_BlankRendersNotSpecified ==
    pc = "built" =>
        LET pf == frame.position_framework
            c == frame.company_criteria
            u == Get(frame.user_prompt)
        IN  /\ \A k \in DOMAIN pf : BlankList(pf[k]) => u[k] = <<"Not specified">>
            /\ BlankList(c.values) => u.values = <<"Not specified">>
            /\ BlankList(c.disqualifiers) => u.disqualifiers = <<"Not specified">>
            /\ c.evaluation_guidelines \in {None, Some("")} =>
                   u.evaluation_guidelines = <<"Not specified">>


\* ------------------------------------------------------- rejected names
\* Request r was answered at ingress and its file name has no allowed
\* extension.
BadExtension(r) ==
    /\ pc[r] = "responding"
    /\ frame[r].received # None
    /\ ~EndsWithAllowed(Get(frame[r].received).cv_filename)

\* The reply names the file extension.
ExtensionError(reply) ==
    /\ reply.status \in {400, 422}
    /\ \/ Contains(reply.message, "File must be one of: ")
       \/ Contains(reply.message, "File must have one of these extensions: ")

\* C19: no run is started for a file name without an allowed extension; such
\* a request is answered with a file-extension error, and up to that answer
\* the document payload was neither read nor decoded, the extractor and the
\* provider were not called and no audit row was written.
C19_BadExtensionRejectedUnread ==
    \A r \in Reqs :
        /\ frame[r].request # None => EndsWithAllowed(Get(frame[r].request).cv_filename)
        /\ BadExtension(r) =>
              /\ ExtensionError(ReplyOf(r))
              /\ \A e \in {"read", "b64encode", "b64decode", "parse_document",
                           "get_provider", "generate", "audit"} :
                     Count(frame[r].steps, e) = 0
              /\ Rows(r) = {}


\* ------------------------------------------------------- position framework
\* The four weight fields of a Position Evaluation Framework document: unset,
\* or a percentage.
WeightFields ==
    {"technical_skills_weight", "experience_weight", "education_weight",
     "cultural_fit_weight"}

StoredWeights == {None, Some(0), Some(15), Some(30), Some(40)}

Frameworks == [WeightFields -> StoredWeights]

\* Python's (v or d) on an integer field: d replaces an unset field and 0.
or_default(v, d) == IF v = None \/ Get(v) = 0 THEN d ELSE Get(v)

total_weight(doc) ==
    or_default(doc["technical_skills_weight"], 0) + or_default(doc["experience_weight"], 0)
    + or_default(doc["education_weight"], 0) + or_default(doc["cultural_fit_weight"], 0)

\* PositionEvaluationFramework.validate: the message it prints, if any; it
\* raises nothing, so the save goes on.
validate(doc) ==
    [exc |-> None,
     msgprint |-> IF total_weight(doc) # 100
                  THEN Some(<<"Warning: Scoring weights should add up to 100%. Current total: ",
                              total_weight(doc)>>)
                  ELSE None]

\* PositionEvaluationFramework.get_framework_dict, the scoring_weights entry.
get_framework_dict(doc) ==
    [technical_skills |-> or_default(doc["technical_skills_weight"], 40),
     experience |-> or_default(doc["experience_weight"], 30),
     education |-> or_default(doc["education_weight"], 15),
     cultural_fit |-> or_default(doc["cultural_fit_weight"], 15)]

\* CVAnalysisClient.analyze_cv: the payload posted to the service.
client_payload(doc) ==
    [BaseRequest EXCEPT !.scoring_weights = get_framework_dict(doc)]

FrameworkInit ==
    /\ Quiet
    /\ pc = "editing"
    /\ \E doc \in Frameworks :
          frame = [doc |-> doc, saved |-> FALSE, msgprint |-> None, payload |-> None,
                   accepted |-> FALSE]

\* The document is saved: validate runs, and the save is aborted only by an
\* exception.
SaveFramework ==
    /\ pc = "editing"
    /\ pc' = "saved"
    /\ LET v == validate(frame.doc)
       IN  frame' = [frame EXCEPT !.saved = (v.exc = None), !.msgprint = v.msgprint]
    /\ UNCHANGED <<settings, providers, utc_day, http, cv_analysis_logs, token_usage>>

\* An applicant for the position is analysed: the client posts the framework
\* and the service validates the request.
AnalyzeApplicant ==
    /\ pc = "saved"
    /\ frame.saved
    /\ pc' = "analyzed"
    /\ LET q == client_payload(frame.doc)
       IN  frame' = [frame EXCEPT !.payload = Some(q.scoring_weights),
                                  !.accepted = (ingress(q).reply = None)]
    /\ UNCHANGED <<settings, providers, utc_day, http, cv_analysis_logs, token_usage>>

FrameworkNext == SaveFramework \/ AnalyzeApplicant

FrameworkSpec == FrameworkInit /\ [][FrameworkNext]_vars

\* The sum of the four weights as they are stored; an unset field counts 0.
StoredTotal(doc) ==
    LET n(k) == IF doc[k] = None THEN 0 ELSE Get(doc[k])
    IN  n("technical_skills_weight") + n("experience_weight")
        + n("education_weight") + n("cultural_fit_weight")

\* C20: a saved framework has a warning exactly when its four weights do not
\* sum to 100, the warning never aborts the save, and a later analysis is
\* accepted and runs with the four weights as they are stored.
C20_WarnedSaveKeepsWeights ==
    /\ pc # "editing" =>
          /\ frame.saved
          /\ (frame.msgprint # None) <=> (StoredTotal(frame.doc) # 100)
    /\ (pc = "analyzed" /\ \A k \in WeightFields : frame.doc[k] # None) =>
          /\ frame.accepted
          /\ Get(frame.payload) =
                [technical_skills |-> Get(frame.doc["technical_skills_weight"]),
                 experience |-> Get(frame.doc["experience_weight"]),
                 education |-> Get(frame.doc["education_weight"]),
                 cultural_fit |-> Get(frame.doc["cultural_fit_weight"])]


\* ------------------------------------------------------- pending calls
\* The handlers of one event loop at the level of the provider call: a call
\* that awaits its client leaves the loop's thread to the other handlers; the
\* Gemini call runs its client synchronously inside the coroutine, so the
\* thread stays inside the call until the client returns.
MaxCallers == 2
Callers == 1..MaxCallers

\* The thread of the loop is not inside a synchronous call.
LoopFree == \A o \in Callers : pc[o] # "blocking"

\* Request r waits for its provider.
Pending(r) == pc[r] \in {"awaiting", "blocking"}

\* One failing and one answering outcome of a provider call.
LoopOutcomes ==
    {o \in GenOutcomes :
        \/ o.kind = "network"
        \/ /\ o.kind = "ok" /\ o.tokens_used = None /\ Acceptable(o.content)
           /\ o.content.value["recommendation"] = "yes"}

LoopInit ==
    /\ settings = Deployment(ProviderSet, "openai", DEFAULT_MAX_RETRIES)
    /\ providers = initialize_providers(settings)
    /\ utc_day = 1
    /\ pc = [r \in Callers |-> "idle"]
    /\ frame = [r \in Callers |-> NoFrame]
    /\ http = [r \in Callers |-> None]
    /\ cv_analysis_logs = {}
    /\ token_usage = {}

\* A request for one of the three providers passes ingress.
Arrive(r) ==
    /\ pc[r] = "idle"
    /\ \A o \in Callers : o < r => pc[o] # "idle"
    /\ LoopFree
    /\ \E p \in ProviderSet :
         frame' = [frame EXCEPT ![r] =
                     NewFrame(CVAnalysisRequest([BaseRequest EXCEPT !.llm_provider = p]))]
    /\ pc' = [pc EXCEPT ![r] = "received"]
    /\ UNCHANGED <<settings, providers, utc_day, http, cv_analysis_logs, token_usage>>

\* analyze runs up to the call of generate: an awaited call is suspended, a
\* synchronous call keeps the thread.
CallProvider(r) ==
    /\ pc[r] = "received"
    /\ LoopFree
    /\ LET f == analyze_before_call(frame[r], "text")
       IN  /\ f.pending = None
           /\ frame' = [frame EXCEPT ![r] = f]
           /\ pc' = [pc EXCEPT ![r] =
                        IF Suspends(Get(f.provider)) THEN "awaiting" ELSE "blocking"]
    /\ UNCHANGED <<settings, providers, utc_day, http, cv_analysis_logs, token_usage>>

\* The client returns or fails and analyze runs to its end: at once for the
\* synchronous call, when the loop resumes the coroutine for an awaited one.
CallReturns(r) ==
    /\ Pending(r)
    /\ pc[r] = "awaiting" => LoopFree
    /\ \E out \in LoopOutcomes, ms \in ElapsedMs :
         Finish(r, generate_result(frame[r], out), ms, "ok")
    /\ UNCHANGED <<settings, providers, utc_day>>

SendReply(r) ==
    /\ pc[r] = "responding"
    /\ LoopFree
    /\ pc' = [pc EXCEPT ![r] = "closed"]
    /\ frame' = [frame EXCEPT ![r] = NoFrame]
    /\ http' = [http EXCEPT ![r] = None]
    /\ UNCHANGED <<settings, providers, utc_day, cv_analysis_logs, token_usage>>

LoopNext ==
    \/ \E r \in Callers : Arrive(r)
    \/ \E r \in Callers : CallProvider(r)
    \/ \E r \in Callers : CallReturns(r)
    \/ \E r \in Callers : SendReply(r)

LoopSpec == LoopInit /\ [][LoopNext]_vars

\* C21: while a request waits for its provider, whichever of the three it
\* is, every other request that has a pipeline step or a reply to take can
\* take it.
C21_PendingCallBlocksNobody ==
    \A r \in Callers : \A o \in Callers \ {r} :
        Pending(r) =>
            /\ pc[o] = "received" => ENABLED CallProvider(o)
            /\ pc[o] = "awaiting" => ENABLED CallReturns(o)
            /\ pc[o] = "responding" => ENABLED SendReply(o)


\* ------------------------------------------------------- usage summary
MaxDays == 2
MaxUpserts == 4

UsageProviders == {"openai", "gemini"}

\* Token counts of the successful runs that reach the aggregate.
UsageTokens == {1, 3}

\* A fraction num/den; SQLite computes the averages in floating point.
Ratio(num, den) == [num |-> num, den |-> den]

\* SUM(column) over a set of aggregate rows
RECURSIVE SumField(_, _)
SumField(rows, column) ==
    IF rows = {} THEN 0
    ELSE LET u == CHOOSE x \in rows : TRUE
         IN  u[column] + SumField(rows \ {u}, column)

\* The sum over the rows of total_tokens * 1.0 / request_count
RECURSIVE SumRatios(_)
SumRatios(rows) ==
    IF rows = {} THEN Ratio(0, 1)
    ELSE LET u == CHOOSE x \in rows : TRUE
             rest == SumRatios(rows \ {u})
         IN  Ratio(u.total_tokens * rest.den + rest.num * u.request_count,
                   u.request_count * rest.den)

\* AVG(total_tokens * 1.0 / request_count) over a non-empty set of rows
AvgRatio(rows) ==
    LET sum == SumRatios(rows) IN Ratio(sum.num, sum.den * Cardinality(rows))

\* round(x, 2), in hundredths; a tie goes to the even neighbour.
round2(x) ==
    LET n == 100 * x.num
        q == n \div x.den
        rem == n % x.den
    IN  IF 2 * rem > x.den \/ (2 * rem = x.den /\ q % 2 = 1) THEN q + 1 ELSE q

\* AuditLogger.get_token_usage_stats: the rows dated within the trailing
\* window, grouped by provider.
get_token_usage_stats(usage, today, days) ==
    LET window == {u \in usage : u.date >= today - days}
        group(p) == {u \in window : u.llm_provider = p}
    IN  [p \in {u.llm_provider : u \in window} |->
            [total_tokens |-> SumField(group(p), "total_tokens"),
             total_requests |-> SumField(group(p), "request_count"),
             avg_tokens_per_request |-> round2(AvgRatio(group(p)))]]

UsageInit ==
    /\ settings = Deployment(ProviderSet, "openai", DEFAULT_MAX_RETRIES)
    /\ providers = initialize_providers(settings)
    /\ utc_day = 1
    /\ pc = "recording"
    /\ frame = None
    /\ http = None
    /\ cv_analysis_logs = {}
    /\ token_usage = {}

\* A successful run's token count is added to the aggregate of its day.
RecordUsage ==
    /\ pc = "recording"
    /\ SumField(token_usage, "request_count") < MaxUpserts
    /\ \E p \in UsageProviders, t \in UsageTokens :
         token_usage' = update_token_usage(token_usage, p, t, utc_day, "ok")
    /\ UNCHANGED <<settings, providers, utc_day, pc, frame, http, cv_analysis_logs>>

\* Midnight UTC passes.
NextDay ==
    /\ pc = "recording"
    /\ utc_day < MaxDays
    /\ utc_day' = utc_day + 1
    /\ UNCHANGED <<settings, providers, pc, frame, http, cv_analysis_logs, token_usage>>

\* The summary over a trailing window is read.
ReadStats ==
    /\ pc = "recording"
    /\ pc' = "read"
    /\ \E days \in 0..MaxDays :
         /\ frame' = Some(days)
         /\ http' = Some(get_token_usage_stats(token_usage, utc_day, days))
    /\ UNCHANGED <<settings, providers, utc_day, cv_analysis_logs, token_usage>>

UsageNext == RecordUsage \/ NextDay \/ ReadStats

UsageSpec == UsageInit /\ [][UsageNext]_vars

\* C22: in the summary, each provider's average tokens per request is its
\* total tokens divided by its total requests over the window (to the two
\* decimals the summary keeps).
C22_AverageIsTotalOverRequests ==
    pc = "read" =>
        \A p \in DOMAIN Get(http) :
            LET st == Get(http)[p]
            IN  st.avg_tokens_per_request =
                    round2(Ratio(st.total_tokens, st.total_requests))


\* ------------------------------------------------------- word documents
\* A text as the sequence of its pieces: 0 is a stretch of whitespace, n > 0
\* a run of n words with single blanks between them.
MaxParagraphs == 2
WORDS_PER_PAGE == 500

\* not text.strip()
is_blank(text) == \A i \in 1..Len(text) : text[i] = 0

\* len(text.split()): two runs with no whitespace between them share a word.
word_count(text) ==
    LET n == Len(text)
        pieces == {i \in 1..n : text[i] > 0}
        joints == {i \in 1..(n - 1) : text[i] > 0 /\ text[i + 1] > 0}
        RECURSIVE total(_)
        total(is) == IF is = {} THEN 0
                     ELSE LET k == CHOOSE x \in is : TRUE IN text[k] + total(is \ {k})
    IN  total(pieces) - Cardinality(joints)

\* sep.join(texts), sep a text
RECURSIVE join_text(_, _)
join_text(sep, texts) ==
    IF Len(texts) = 0 THEN <<>>
    ELSE IF Len(texts) = 1 THEN texts[1]
    ELSE texts[1] \o sep \o join_text(sep, Tail(texts))

\* The texts of paragraphs and of table cells: empty, blank, a word, a page
\* less a word, a padded page, two pages less a word.
ParagraphTexts == {<<>>, <<0>>, <<1>>, <<WORDS_PER_PAGE - 1>>, <<0, WORDS_PER_PAGE, 0>>,
                   <<2 * WORDS_PER_PAGE - 1>>}
CellTexts == {<<>>, <<0>>, <<1>>}

RECURSIVE SeqsUpTo(_, _)
SeqsUpTo(S, n) ==
    IF n = 0 THEN {<<>>}
    ELSE SeqsUpTo(S, n - 1) \cup {Append(q, x) : q \in SeqsUpTo(S, n - 1), x \in S}

\* A document: its paragraphs and the rows of its tables, each row the
\* texts of its cells.
Documents ==
    [paragraphs : SeqsUpTo(ParagraphTexts, MaxParagraphs),
     rows : SeqsUpTo(SeqsUpTo(CellTexts, 2), 1)]

\* The text _parse_docx extracts: the non-blank paragraphs, then one line
\* per table row that has a non-blank cell, its non-blank cells joined by
\* " | "; all joined by blank lines.
docx_full_text(d) ==
    LET kept == SelectSeq(d.paragraphs, LAMBDA t : ~is_blank(t))
        row_text(row) == SelectSeq(row, LAMBDA t : ~is_blank(t))
        lines == [i \in 1..Len(d.rows) |-> join_text(<<0, 1, 0>>, row_text(d.rows[i]))]
        table_lines == SelectSeq(lines, LAMBDA t : Len(t) > 0)
    IN  join_text(<<0>>, kept \o table_lines)

Max(a, b) == IF a >= b THEN a ELSE b

\* Variant: the estimate is the quotient alone.
parse_docx_document_floor(d) ==
    LET full_text == docx_full_text(d)
    IN  IF is_blank(full_text)
        THEN Raise(Exc("DocumentParserError",
                       <<"Failed to parse DOCX: ", "No text could be extracted from DOCX file.">>))
        ELSE Ok([text |-> full_text, page_count |-> word_count(full_text) \div WORDS_PER_PAGE])

\* DocumentParser._parse_docx on a readable document.
parse_docx_document(d) ==
    LET full_text == docx_full_text(d)
    IN  IF is_blank(full_text)
        THEN Raise(Exc("DocumentParserError",
                       <<"Failed to parse DOCX: ", "No text could be extracted from DOCX file.">>))
        ELSE Ok([text |-> full_text,
                 page_count |-> Max(1, word_count(full_text) \div WORDS_PER_PAGE)])

DocxInit ==
    /\ Quiet
    /\ pc = "document"
    /\ \E d \in Documents : frame = [document |-> d, parsed |-> None]

ParseDocx ==
    /\ pc = "document"
    /\ pc' = "parsed"
    /\ frame' = [frame EXCEPT !.parsed = Some(parse_docx_document(frame.document))]
    /\ UNCHANGED <<settings, providers, utc_day, http, cv_analysis_logs, token_usage>>

DocxNext == ParseDocx

DocxSpec == DocxInit /\ [][DocxNext]_vars

\* The number of words of a text, counted word by word: a word starts at a
\* run that begins the text or follows whitespace, and each run of n words
\* has n - 1 further word starts inside it.
WordStarts(text) ==
    LET starts == {i \in 1..Len(text) : text[i] > 0 /\ (i = 1 \/ text[i - 1] = 0)}
        RECURSIVE inner(_)
        inner(k) == IF k = 0 THEN 0
                    ELSE inner(k - 1) + (IF text[k] > 0 THEN text[k] - 1 ELSE 0)
    IN  Cardinality(starts) + inner(Len(text))

\* C23: a document whose extracted text has a word yields that text with a
\* unit count of max(1, words // 500); a document whose extracted text is
\* empty after trimming yields the no-text failure and no unit count.
C23_UnitCountFromWords ==
    pc = "parsed" =>
        LET r == Get(frame.parsed)
            text == docx_full_text(frame.document)
        IN  IF WordStarts(text) = 0
            THEN /\ r.value = None
                 /\ r.exc # None
                 /\ Get(r.exc).type = "DocumentParserError"
                 /\ Contains(Get(r.exc).msg, "No text could be extracted from DOCX file.")
            ELSE /\ r.exc = None
                 /\ Get(r.value).text = text
                 /\ LET q == WordStarts(text) \div 500
                    IN  Get(r.value).page_count = (IF q < 1 THEN 1 ELSE q)

\* A paragraph of 999 words and a table cell of one word: two units.
C23_TwoPagesWithTable ==
    /\ pc = "parsed"
    /\ frame.document = [paragraphs |-> << <<2 * WORDS_PER_PAGE - 1>> >>, rows |-> << << <<1>> >> >>]
    /\ Get(frame.parsed).exc = None
    /\ Get(Get(frame.parsed).value).page_count = 2


\* ------------------------------------------------------- score ranges
\* Answers that differ in their overall score and in the raw score and the
\* weight of their second section, each at and beyond the ends of [0,100].
RangeValues == {-1, 0, 100, 101}

RangeAnswers ==
    { Answer(RequiredSet, overall, "yes", <<Entry(80, 50, 40), Entry(score, weight, 0)>>) :
        overall \in RangeValues, score \in RangeValues, weight \in RangeValues }

RangeOutcomes ==
    { [kind |-> "ok", content |-> [json |-> "object", value |-> a, items |-> <<>>],
       tokens_used |-> Some(MaxTokens), msg |-> ""] : a \in RangeAnswers }

\* One request, for a provider that is awaited or for Gemini.
ScoreInit ==
    /\ settings = Deployment(ProviderSet, "openai", DEFAULT_MAX_RETRIES)
    /\ providers = initialize_providers(settings)
    /\ utc_day = 1
    /\ pc = [r \in {1} |-> "received"]
    /\ \E p \in {"auto", "gemini"} :
         frame = [r \in {1} |->
                     NewFrame(CVAnalysisRequest([BaseRequest EXCEPT !.llm_provider = p]))]
    /\ http = [r \in {1} |-> None]
    /\ cv_analysis_logs = {}
    /\ token_usage = {}

\* analyze runs up to the provider call.
ScoreCall ==
    /\ pc[1] = "received"
    /\ pc' = [pc EXCEPT ![1] = "awaiting"]
    /\ frame' = [frame EXCEPT ![1] = analyze_before_call(frame[1], "text")]
    /\ UNCHANGED <<settings, providers, utc_day, http, cv_analysis_logs, token_usage>>

\* The provider answers and analyze runs to its end.
ScoreReturns ==
    /\ pc[1] = "awaiting"
    /\ \E out \in RangeOutcomes, db \in DbOutcomes, ms \in ElapsedMs :
         Finish(1, generate_result(frame[1], out), ms, db)
    /\ UNCHANGED <<settings, providers, utc_day>>

ScoreNext == ScoreCall \/ ScoreReturns

ScoreSpec == ScoreInit /\ [][ScoreNext]_vars

InRange(x) == 0 <= x /\ x <= 100

\* The overall score and every section's raw score and weight are in [0,100].
ScoresInRange(a) ==
    /\ InRange(a.overall_score)
    /\ \A i \in 1..Len(a.section_scores) :
          InRange(a.section_scores[i].score) /\ InRange(a.section_scores[i].weight)

\* The answer the provider gave to the run in frame f.
AnswerGiven(f) == Get(f.llm_response).content.value

\* C24: a result returned by analyze has its overall score and every
\* section's raw score and weight in [0,100]; an answer with one of them out
\* of range gives no result: analyze raises, the reply is an error and no row
\* of the run says success.
C24_ScoresWithinRange ==
    pc[1] = "responding" =>
        LET f == frame[1]
            a == AnswerGiven(f)
            given == [overall_score |-> a["overall_score"],
                      section_scores |-> a["section_scores"]]
        IN  /\ f.response # None => ScoresInRange(Get(f.response))
            /\ ReplyOf(1).status = 200 =>
                  ReplyOf(1).body # None /\ ScoresInRange(Get(ReplyOf(1).body))
            /\ ~ScoresInRange(given) =>
                  /\ f.response = None
                  /\ f.raised # None
                  /\ ReplyOf(1).status # 200 /\ ReplyOf(1).body = None
                  /\ \A l \in Rows(1) : l.status = "error"

\* An answer whose only fault is a weight of 101 ended its run in error.
C24_WeightTooLargeRefused ==
    /\ pc[1] = "responding"
    /\ AnswerGiven(frame[1])["overall_score"] = 100
    /\ AnswerGiven(frame[1])["section_scores"][2].score = 100
    /\ AnswerGiven(frame[1])["section_scores"][2].weight = 101
    /\ frame[1].response = None
    /\ ReplyOf(1).status = 400
    /\ \E l \in Rows(1) : l.status = "error"


\* ------------------------------------------------------- audit rows
\* C25: the audit row of a failed run has status "error", a non-empty
\* message and no overall score, recommendation or token count; the audit
\* row of a successful run has status "success", the analysis id of the
\* returned result and its overall score, recommendation, token count and
\* processing time.
C25_RowMatchesOutcome ==
    \A r \in Reqs :
        Ran(r) =>
            \A l \in Rows(r) :
                IF frame[r].raised # None
                THEN /\ l.status = "error"
                     /\ l.error_message # None
                     /\ Len(Get(l.error_message)) > 0
                     /\ \A i \in 1..Len(Get(l.error_message)) : Get(l.error_message)[i] # ""
                     /\ l.overall_score = None
                     /\ l.recommendation = None
                     /\ l.tokens_used = None
                ELSE LET res == Get(ReplyOf(r).body)
                     IN  /\ l.status = "success"
                         /\ l.error_message = None
                         /\ l.analysis_id = res.analysis_id
                         /\ l.overall_score = Some(res.overall_score)
                         /\ l.recommendation = Some(res.recommendation)
                         /\ l.tokens_used = res.metadata.tokens_used
                         /\ l.processing_time_ms = res.metadata.processing_time_ms

\* A successful run with a known token count and its row, beside the row of
\* an earlier run.
C25_SuccessRowStored ==
    \E r \in Reqs :
        /\ Ran(r)
        /\ ReplyOf(r).status = 200
        /\ EarlierRow \in cv_analysis_logs
        /\ \E l \in Rows(r) :
              /\ l.status = "success"
              /\ l.tokens_used = Some(MaxTokens)
              /\ l.overall_score = Some(50)


\* ------------------------------------------------------- automatic selection
\* C26: a selection with no name or with "auto" succeeds whenever a provider
\* is available, whatever the configured default name is, and returns the
\* first available provider.
C26_AutoSucceedsWhenAnyAvailable ==
    (pc = "selected" /\ frame.provider_name \in {"", "auto"} /\ Available # {}) =>
        /\ Get(frame.selected).exc = None
        /\ Get(frame.selected).value = Some(FirstAvailable)


\* ------------------------------------------------------- audited provider
\* C27: for a successful run, the provider name in its audit row, which is
\* also the key of the day's aggregate that the run's tokens were added to,
\* is the provider name in the metadata of the returned result.
C27_AuditedProviderIsServingProvider ==
    \A r \in Reqs :
        (Ran(r) /\ ReplyOf(r).status = 200) =>
            LET served == Get(ReplyOf(r).body).metadata.llm_provider
            IN  \A l \in Rows(r) :
                    /\ l.llm_provider = served
                    /\ (needs_upsert(l) /\ frame[r].audit_log = None) =>
                          Aggregate(token_usage, l.timestamp, served)[2] >= 1


\* ------------------------------------------------------- store consistency
\* _update_token_usage as it may go: it reads the clock itself, on its own
\* connection, and swallows a failure of its statement.
AuditUpsertOrFail(w) ==
    /\ pc[w] = "inserted"
    /\ \E db \in {"ok", "upsert_error"} :
         token_usage' = update_token_usage(token_usage, Get(frame[w]).llm_provider,
                                           Get(Get(frame[w]).tokens_used), utc_day, db)
    /\ pc' = [pc EXCEPT ![w] = "done"]
    /\ frame' = [frame EXCEPT ![w] = None]
    /\ UNCHANGED <<settings, providers, utc_day, http, cv_analysis_logs>>

\* Midnight UTC passes, between any two statements.
Midnight ==
    /\ utc_day < MaxDays
    /\ utc_day' = utc_day + 1
    /\ UNCHANGED <<settings, providers, pc, frame, http, cv_analysis_logs, token_usage>>

StoreNext ==
    \/ \E w \in Writers : AuditInsert(w)
    \/ \E w \in Writers : AuditUpsertOrFail(w)
    \/ Midnight

StoreSpec == AuditInit /\ [][StoreNext]_vars

\* The stored success rows of a provider dated a given day that carry a
\* token count.
CountedRows(day, p) ==
    {l \in cv_analysis_logs :
        /\ l.status = "success" /\ l.llm_provider = p /\ l.timestamp = day
        /\ l.tokens_used # None}

\* C28: whenever no audit write is between its two statements, the aggregate
\* of every (date, provider) has total_tokens equal to the sum of tokens_used
\* over the stored success rows of that provider dated that day and
\* request_count equal to the number of those rows with a non-zero count.
C28_AggregateMatchesRows ==
    (\A w \in Writers : pc[w] # "inserted") =>
        \A day \in 1..MaxDays : \A p \in {"auto", "openai"} :
            Aggregate(token_usage, day, p) =
                <<SumTokens(CountedRows(day, p)),
                  Cardinality({l \in CountedRows(day, p) : Get(l.tokens_used) # 0})>>


\* ------------------------------------------------------- sent weights
\* C29: the framework dictionary sent to the service carries exactly the
\* four stored weights, for every stored value in [0,100], 0 included, so
\* that the sum the save examined is the sum of the weights the analysis uses.
C29_PayloadCarriesStoredWeights ==
    (pc = "analyzed" /\ \A k \in WeightFields : frame.doc[k] # None) =>
        LET sent == Get(frame.payload)
        IN  /\ sent.technical_skills = Get(frame.doc["technical_skills_weight"])
            /\ sent.experience = Get(frame.doc["experience_weight"])
            /\ sent.education = Get(frame.doc["education_weight"])
            /\ sent.cultural_fit = Get(frame.doc["cultural_fit_weight"])
            /\ sent.technical_skills + sent.experience + sent.education + sent.cultural_fit
                  = total_weight(frame.doc)


\* ------------------------------------------------------- health
\* Settings.APP_VERSION
APP_VERSION == "1.0.0"

\* _initialize_providers with constructors that may raise: a provider is
\* registered when its API key is set and its constructor returned; a
\* constructor that raised is logged and the provider is left out.
initialize_providers_guarded(s, failed) ==
    SelectSeq(ProviderNames, LAMBDA p : p \in s.api_keys /\ p \notin failed)

\* Variant: the status is read from the API key alone.
get_available_providers_by_key(provs, s) ==
    [p \in ProviderSet |->
        IF p \in s.api_keys THEN "available" ELSE "not_configured"]

\* LLMFactory.get_available_providers
get_available_providers(provs, s) ==
    [p \in ProviderSet |->
        IF Contains(provs, p)
        THEN IF is_available(p, s) THEN "available"
             ELSE "configured_but_unavailable"
        ELSE "not_configured"]

\* GET /health
health_check(provs, s) ==
    [status |-> "healthy", version |-> APP_VERSION,
     llm_providers |-> get_available_providers(provs, s)]

\* The service starts with any set of API keys, any default provider and
\* any set of providers whose constructor raises.
HealthInit ==
    /\ \E keys \in SUBSET ProviderSet, failed \in SUBSET ProviderSet,
          env \in {None, Some("auto")} :
          /\ settings = Deployment(keys, load_default(env), DEFAULT_MAX_RETRIES)
          /\ providers = initialize_providers_guarded(settings, failed)
          /\ frame = [failed |-> failed, provider_name |-> None, selected |-> None]
    /\ pc = "serving"
    /\ utc_day = 1
    /\ http = None
    /\ cv_analysis_logs = {}
    /\ token_usage = {}

\* A client asks for the health of the service.
HealthCheck ==
    /\ pc = "serving"
    /\ http = None
    /\ http' = Some(health_check(providers, settings))
    /\ UNCHANGED <<settings, providers, utc_day, pc, frame, cv_analysis_logs, token_usage>>

\* A request selects one of the three providers by name.
SelectNamed(name) ==
    /\ pc = "serving"
    /\ frame.selected = None
    /\ frame' = [frame EXCEPT !.provider_name = Some(name),
                              !.selected = Some(get_provider(name, providers, settings))]
    /\ UNCHANGED <<settings, providers, utc_day, pc, http, cv_analysis_logs, token_usage>>

HealthNext ==
    \/ HealthCheck
    \/ \E name \in ProviderSet : SelectNamed(name)

HealthSpec == HealthInit /\ [][HealthNext]_vars

\* C30: the health reply has a status, a version and an entry for each of
\* openai, anthropic and gemini; the entry of a provider is "available"
\* exactly when selecting that provider by name succeeds; a provider whose
\* API key is missing or whose constructor raised is reported
\* "not_configured" and selecting it fails.
C30_HealthAgreesWithSelection ==
    (http # None) =>
        LET reply == Get(http)
        IN  /\ reply.status = "healthy"
            /\ reply.version = APP_VERSION
            /\ DOMAIN reply.llm_providers = ProviderSet
            /\ \A p \in ProviderSet :
                  (p \notin settings.api_keys \/ p \in frame.failed)
                      => reply.llm_providers[p] = "not_configured"
            /\ (frame.selected # None) =>
                  LET name == Get(frame.provider_name)
                      got == Get(frame.selected)
                  IN  /\ (reply.llm_providers[name] = "available")
                            <=> (got.exc = None)
                      /\ (name \notin settings.api_keys \/ name \in frame.failed)
                            => got.exc # None

\* openai has its key but its constructor raised: health reports it
\* "not_configured" and anthropic "available", and selecting openai fails.
C30_FailedConstructionReported ==
    /\ http # None
    /\ frame.selected # None
    /\ "openai" \in settings.api_keys
    /\ "openai" \in frame.failed
    /\ Get(frame.provider_name) = "openai"
    /\ Get(frame.selected).exc # None
    /\ Get(http).llm_providers["openai"] = "not_configured"
    /\ Get(http).llm_providers["anthropic"] = "available"

====
